---- MODULE Spec2Model ----
(***************************************************************************)
(* A model of the build orchestrator, the watch loop and the page          *)
(* rendering pipeline of the site generator:                               *)
(*   commands/hugo.go     fullBuild, fullRebuild, newWatcher               *)
(*   hugolib/site_render  renderPages, pageRenderer                        *)
(* File names are sequences of one-character strings, so that the          *)
(* path/filepath and strings functions the watch loop uses are computed    *)
(* character by character as the Go library computes them.                 *)
(***************************************************************************)
EXTENDS Integers, Sequences, FiniteSets, TLC

(***************************************************************************)
(* Bounds of the model.                                                    *)
(***************************************************************************)
\* longest ordinary (non-storm) event batch delivered by the batcher
MaxBatch == 2
\* length of the debounce idle window, in clock ticks
DebounceWindow == 2
\* debounce triggers that may pile up before the deferred action runs
MaxPending == 2
\* most pagers of a paginator
MaxPagers == 4
\* configured languages, one site each
NumLanguages == 2
\* largest file count one static sync reports
MaxCount == 2
\* render workers (getGoMaxProcs() * 4 in the code)
NumWorkers == 2
\* pages of the site
MaxPages == 2

(***************************************************************************)
(* Program constants.                                                      *)
(***************************************************************************)
\* if len(evs) > 50
StormThreshold == 50

(***************************************************************************)
(* File names used as inputs.                                              *)
(***************************************************************************)
Paths ==
  [ config      |-> <<"c", ".", "t", "o", "m", "l">>,
    contentA    |-> <<"c", "/", "a", ".", "m", "d">>,
    contentB    |-> <<"c", "/", "b", "b", ".", "m", "d">>,
    staticX     |-> <<"s", "/", "x", ".", "c", "s", "s">>,
    staticRoot  |-> <<"s", "/">>,
    contentRoot |-> <<"c">>,
    staticDir   |-> <<"s">>,
    \* r is the real directory that the links c/p and c/q point to
    realDir     |-> <<"r", "/">>,
    realA       |-> <<"r", "/", "a", ".", "m", "d">>,
    realTmp     |-> <<"r", "/", "a", ".", "t", "m", "p">>,
    realF       |-> <<"r", "/", "f", ".", "m", "d">>,
    linkP       |-> <<"c", "/", "p">>,
    linkQ       |-> <<"c", "/", "q">>,
    linkF       |-> <<"c", "/", "f", ".", "m", "d">>,
    newDir      |-> <<"c", "/", "n">>,
    newDirFile  |-> <<"c", "/", "n", "/", "b", ".", "m", "d">>,
    newSubDir   |-> <<"c", "/", "n", "/", "d">>,
    newStDir    |-> <<"s", "/", "i">>,
    newStFile   |-> <<"s", "/", "i", "/", "y", ".", "p", "n", "g">>,
    tilde       |-> <<"c", "/", "a", ".", "m", "d", "~">>,
    tildeNoDot  |-> <<"c", "/", "a", "~">>,
    swp         |-> <<"c", "/", "a", ".", "s", "w", "p">>,
    swx         |-> <<"c", "/", "a", ".", "s", "w", "x">>,
    tmp         |-> <<"c", "/", "a", ".", "t", "m", "p">>,
    dsStore     |-> <<"c", "/", ".", "D", "S", "_", "S", "t", "o", "r", "e">>,
    vim4913     |-> <<"c", "/", "4", "9", "1", "3">>,
    gout        |-> <<"c", "/", "a", ".", "g", "o", "u", "t", "p", "u", "t",
                      "s", "t", "r", "e", "a", "m", "-", "X">>,
    sb          |-> <<"c", "/", "a", ".", "s", "b", "-", "1">>,
    jbOld       |-> <<"c", "/", "a", ".", "m", "d", "_", "_", "_",
                      "j", "b", "_", "o", "l", "d", "_", "_", "_">>,
    jbTmp       |-> <<"c", "/", "a", ".", "m", "d", "_", "_", "_",
                      "j", "b", "_", "t", "m", "p", "_", "_", "_">>,
    jbBak       |-> <<"c", "/", "a", ".", "m", "d", "_", "_", "_",
                      "j", "b", "_", "b", "a", "k", "_", "_", "_">>,
    jbNoDot     |-> <<"c", "/", "a", "j", "b", "_", "o", "l", "d", "_", "_", "_">>,
    emacsLock   |-> <<"c", "/", ".", "#", "a">>,
    emacsAuto   |-> <<"c", "/", "#", "a", "#">>,
    swpInDir    |-> <<"c", ".", "s", "w", "p", "/", "a">>,
    empty       |-> <<>> ]

(***************************************************************************)
(* strings and path/filepath.                                              *)
(***************************************************************************)
HasPrefix(s, prefix) ==
  Len(prefix) <= Len(s) /\ SubSeq(s, 1, Len(prefix)) = prefix

HasSuffix(s, suffix) ==
  Len(suffix) <= Len(s) /\ SubSeq(s, Len(s) - Len(suffix) + 1, Len(s)) = suffix

\* the index of the last path separator in path[1..i], 0 when there is none
RECURSIVE LastSeparatorFrom(_, _)
LastSeparatorFrom(path, i) ==
  IF i = 0 THEN 0
  ELSE IF path[i] = "/" THEN i
  ELSE LastSeparatorFrom(path, i - 1)

LastSeparator(path) == LastSeparatorFrom(path, Len(path))

\* filepath.Ext: the suffix beginning at the final dot in the final element;
\* the scan runs backwards from position i and stops at a separator
RECURSIVE ExtFrom(_, _)
ExtFrom(path, i) ==
  IF i = 0 \/ path[i] = "/" THEN <<>>
  ELSE IF path[i] = "." THEN SubSeq(path, i, Len(path))
  ELSE ExtFrom(path, i - 1)

Ext(path) == ExtFrom(path, Len(path))

RECURSIVE StripTrailingSeparators(_)
StripTrailingSeparators(path) ==
  IF Len(path) > 0 /\ path[Len(path)] = "/"
  THEN StripTrailingSeparators(SubSeq(path, 1, Len(path) - 1))
  ELSE path

\* filepath.Base
Base(path) ==
  IF path = <<>> THEN <<".">>
  ELSE LET stripped == StripTrailingSeparators(path)
           last == SubSeq(stripped, LastSeparator(stripped) + 1, Len(stripped))
       IN  IF last = <<>> THEN <<"/">> ELSE last

\* filepath.Split: dir keeps its trailing separator
Split(path) ==
  [dir  |-> SubSeq(path, 1, LastSeparator(path)),
   file |-> SubSeq(path, LastSeparator(path) + 1, Len(path))]

RECURSIVE CollapseSeparators(_, _, _)
CollapseSeparators(path, i, acc) ==
  IF i > Len(path) THEN acc
  ELSE IF path[i] = "/" /\ acc # <<>> /\ acc[Len(acc)] = "/"
       THEN CollapseSeparators(path, i + 1, acc)
       ELSE CollapseSeparators(path, i + 1, Append(acc, path[i]))

\* filepath.Clean for paths without . and .. elements: repeated separators
\* are collapsed, a trailing separator is removed, the empty path is "."
Clean(path) ==
  LET collapsed == CollapseSeparators(path, 1, <<>>)
      trimmed == IF Len(collapsed) > 1 /\ collapsed[Len(collapsed)] = "/"
                 THEN SubSeq(collapsed, 1, Len(collapsed) - 1)
                 ELSE collapsed
  IN  IF trimmed = <<>> THEN <<".">> ELSE trimmed

\* filepath.Join of two elements
Join(a, b) ==
  IF a # <<>> THEN Clean(a \o <<"/">> \o b)
  ELSE IF b # <<>> THEN Clean(b)
  ELSE <<>>

(***************************************************************************)
(* The watch loop of newWatcher: inputs.                                   *)
(***************************************************************************)
\* fsnotify.Op is a bit mask; it is modelled as the set of the bits set
OpBits == {"Create", "Write", "Remove", "Rename", "Chmod"}

Ev(name, op) == [Name |-> name, Op |-> op]

\* configSet: the registered config files
ConfigSet == {Paths.config}

\* Hugo.ContentChanges.GetSymbolicLinkMappings: the link locations recorded
\* for a resolved file or directory, in sorted order; none when there is no
\* mapping.  Directories are recorded with their trailing separator.
GetSymbolicLinkMappings(name) ==
  IF name = Paths.realDir THEN <<Paths.linkP, Paths.linkQ>>
  ELSE IF name = Paths.realF THEN <<Paths.linkF>>
  ELSE <<>>

\* staticSyncer.isStatic: the path lies under a static root
IsStatic(name) == HasPrefix(name, Paths.staticRoot)

\* c.Fs.Source.Stat(name) succeeds and reports a directory
StatIsDir(name) == name \in {Paths.newDir, Paths.newSubDir, Paths.newStDir}

\* helpers.SymbolicWalk(c.Fs.Source, root, ...): the entries below root in
\* the order they are visited, root first
SymbolicWalk(root) ==
  IF root = Paths.newDir
  THEN << [path |-> Paths.newDir, isDir |-> TRUE],
          [path |-> Paths.newDirFile, isDir |-> FALSE],
          [path |-> Paths.newSubDir, isDir |-> TRUE] >>
  ELSE IF root = Paths.newSubDir
  THEN << [path |-> Paths.newSubDir, isDir |-> TRUE] >>
  ELSE IF root = Paths.newStDir
  THEN << [path |-> Paths.newStDir, isDir |-> TRUE],
          [path |-> Paths.newStFile, isDir |-> FALSE] >>
  ELSE <<>>

\* the event pools a run draws its batches from
Pools ==
  { \* config file events next to content and static events
    { Ev(Paths.config, {"Write"}), Ev(Paths.config, {"Chmod"}),
      Ev(Paths.config, {"Chmod", "Write"}), Ev(Paths.contentA, {"Write"}),
      Ev(Paths.contentB, {"Create"}), Ev(Paths.staticX, {"Write"}) },
    \* operation bit combinations
    { Ev(Paths.contentA, {"Chmod"}), Ev(Paths.contentA, {"Chmod", "Write"}),
      Ev(Paths.contentA, {"Chmod", "Create"}), Ev(Paths.contentA, {"Chmod", "Remove"}),
      Ev(Paths.staticX, {"Chmod"}), Ev(Paths.staticX, {"Chmod", "Write"}) },
    \* events on symbolically linked content
    { Ev(Paths.realA, {"Write"}), Ev(Paths.realA, {"Chmod"}),
      Ev(Paths.realF, {"Create"}), Ev(Paths.realTmp, {"Write"}),
      Ev(Paths.contentA, {"Remove"}), Ev(Paths.config, {"Write"}) },
    \* editor and OS noise
    { Ev(Paths.tilde, {"Write"}), Ev(Paths.tildeNoDot, {"Write"}),
      Ev(Paths.swp, {"Create"}), Ev(Paths.swx, {"Write"}),
      Ev(Paths.tmp, {"Write"}), Ev(Paths.contentA, {"Write"}) },
    { Ev(Paths.vim4913, {"Create"}), Ev(Paths.gout, {"Write"}),
      Ev(Paths.sb, {"Write"}), Ev(Paths.emacsLock, {"Create"}),
      Ev(Paths.emacsAuto, {"Write"}), Ev(Paths.empty, {"Remove"}) },
    { Ev(Paths.jbOld, {"Write"}), Ev(Paths.jbTmp, {"Write"}),
      Ev(Paths.jbBak, {"Write"}), Ev(Paths.jbNoDot, {"Write"}),
      Ev(Paths.swpInDir, {"Write"}), Ev(Paths.dsStore, {"Write"}) },
    \* newly created directories
    { Ev(Paths.newDir, {"Create"}), Ev(Paths.newDir, {"Write"}),
      Ev(Paths.newStDir, {"Create"}), Ev(Paths.newDirFile, {"Create"}),
      Ev(Paths.staticX, {"Remove"}) } }

\* a batch of n copies of one event
Repeat(e, n) == [i \in 1..n |-> e]

\* the batches watcher.Events can deliver from a pool: every ordinary batch
\* of up to MaxBatch events, and batches at and just above the threshold
Batches(events) ==
  UNION {[1..n -> events] : n \in 1..MaxBatch}
    \cup {Repeat(e, n) : e \in events,
                          n \in {StormThreshold, StormThreshold + 1}}

(***************************************************************************)
(* The watch loop of newWatcher: the code of one iteration.                *)
(***************************************************************************)
\* the threshold test with >= for >
IsStormInclusive(evs) == Len(evs) >= StormThreshold

\* len(evs) > 50
IsStorm(evs) == Len(evs) > StormThreshold

\* ev.Op&fsnotify.Chmod == fsnotify.Chmod
HasChmod(op) == "Chmod" \in op

\* the rewriting with only the first mapped target used
RewriteEventFirstTarget(ev) ==
  LET exact == GetSymbolicLinkMappings(ev.Name)
      sp == Split(ev.Name)
      byDir == GetSymbolicLinkMappings(sp.dir)
  IN  IF Len(exact) > 0
      THEN << Ev(exact[1], ev.Op) >>
      ELSE IF Len(byDir) = 0
      THEN <<ev>>
      ELSE << Ev(Join(byDir[1], sp.file), ev.Op) >>

\* the events one event is rewritten to by the symbolic link handling
RewriteEvent(ev) ==
  LET exact == GetSymbolicLinkMappings(ev.Name)
      sp == Split(ev.Name)
      byDir == GetSymbolicLinkMappings(sp.dir)
  IN  IF Len(exact) > 0
      THEN [j \in 1..Len(exact) |-> Ev(exact[j], ev.Op)]
      ELSE IF Len(byDir) = 0
      THEN <<ev>>
      ELSE [j \in 1..Len(byDir) |-> Ev(Join(byDir[j], sp.file), ev.Op)]

\* the concatenation parts[lo] \o ... \o parts[hi], by halves
RECURSIVE ConcatRange(_, _, _)
ConcatRange(parts, lo, hi) ==
  IF lo > hi THEN <<>>
  ELSE IF lo = hi THEN parts[lo]
  ELSE LET mid == (lo + hi) \div 2
       IN  ConcatRange(parts, lo, mid) \o ConcatRange(parts, mid + 1, hi)

\* the test without the continue for the Chmod bit
IsConfigChangeAnyOp(ev) == ev.Name \in ConfigSet

\* the event makes the first loop call fullRebuild and break
IsConfigChange(ev) == ev.Name \in ConfigSet /\ ~HasChmod(ev.Op)

\* the index of the event at which the first loop breaks, Len(evs) + 1
\* when it runs to the end of the batch
BreakIndex(evs) ==
  LET I == {i \in 1..Len(evs) : IsConfigChange(evs[i])}
  IN  IF I = {} THEN Len(evs) + 1 ELSE CHOOSE i \in I : \A j \in I : i <= j

\* the body of the first loop for an event before the break: what it
\* appends to filtered
FilterEvent(ev) ==
  IF ev.Name \in ConfigSet THEN <<>> ELSE RewriteEvent(ev)

\* the first loop over the batch: config files and symbolic links.
\* config is the number of fullRebuild calls the loop makes.
Filter(evs) ==
  LET k == BreakIndex(evs)
      parts == [i \in 1..(k - 1) |-> FilterEvent(evs[i])]
  IN  [filtered |-> ConcatRange(parts, 1, k - 1),
       config |-> IF k <= Len(evs) THEN 1 ELSE 0]

\* istemp
IsTemp(name) ==
  LET ext == Ext(name)
      baseName == Base(name)
  IN  \/ HasSuffix(ext, <<"~">>)
      \/ ext = <<".", "s", "w", "p">>
      \/ ext = <<".", "s", "w", "x">>
      \/ ext = <<".", "t", "m", "p">>
      \/ ext = <<".", "D", "S", "_", "S", "t", "o", "r", "e">>
      \/ baseName = <<"4", "9", "1", "3">>
      \/ HasPrefix(ext, <<".", "g", "o", "u", "t", "p", "u", "t",
                          "s", "t", "r", "e", "a", "m">>)
      \/ HasSuffix(ext, <<"j", "b", "_", "o", "l", "d", "_", "_", "_">>)
      \/ HasSuffix(ext, <<"j", "b", "_", "t", "m", "p", "_", "_", "_">>)
      \/ HasSuffix(ext, <<"j", "b", "_", "b", "a", "k", "_", "_", "_">>)
      \/ HasPrefix(ext, <<".", "s", "b", "-">>)
      \/ HasPrefix(baseName, <<".", "#">>)
      \/ HasPrefix(baseName, <<"#">>)

\* the Chmod test without the Write and Create bits in the mask
IsChmodOnlyLoose(op) == "Chmod" \in op

\* ev.Op&(fsnotify.Chmod|fsnotify.Write|fsnotify.Create) == fsnotify.Chmod
IsChmodOnly(op) == op \cap {"Chmod", "Write", "Create"} = {"Chmod"}

\* the event is dropped by the second loop before it is classified
IsSkipped(ev) == IsTemp(ev.Name) \/ ev.Name = <<>> \/ IsChmodOnly(ev.Op)

\* walkAdder adding the created directory alone, and the files as it does
WalkAdderRootOnly(entries, i, acc) ==
  [added |-> { entries[1].path },
   dynamic |-> [k \in 1..Cardinality({ n \in 1..Len(entries) :
                                         ~entries[n].isDir
                                           /\ ~IsStatic(entries[n].path) }) |->
                  Ev((CHOOSE e \in { entries[n] : n \in 1..Len(entries) } :
                        ~e.isDir).path, {"Create"})]]

\* walkAdder over a created directory: the directories it adds to the
\* watcher and the Create events it appends to dynamicEvents
RECURSIVE WalkAdder(_, _, _)
WalkAdder(entries, i, acc) ==
  IF i > Len(entries) THEN acc
  ELSE IF entries[i].isDir
       THEN WalkAdder(entries, i + 1,
                      [acc EXCEPT !.added = @ \cup {entries[i].path}])
       ELSE IF ~IsStatic(entries[i].path)
            THEN WalkAdder(entries, i + 1,
                   [acc EXCEPT !.dynamic = Append(@, Ev(entries[i].path, {"Create"}))])
            ELSE WalkAdder(entries, i + 1, acc)

\* the body of the second loop for one filtered event: noise, Chmod,
\* created directories, static or dynamic; what it appends and adds
ClassifyEvent(ev) ==
  IF IsSkipped(ev) THEN [static |-> <<>>, dynamic |-> <<>>, added |-> {}]
  ELSE LET walked == IF "Create" \in ev.Op /\ StatIsDir(ev.Name)
                     THEN WalkAdder(SymbolicWalk(ev.Name), 1,
                                    [dynamic |-> <<>>, added |-> {}])
                     ELSE [dynamic |-> <<>>, added |-> {}]
       IN  IF IsStatic(ev.Name)
           THEN [static |-> <<ev>>, dynamic |-> walked.dynamic,
                 added |-> walked.added]
           ELSE [static |-> <<>>, dynamic |-> Append(walked.dynamic, ev),
                 added |-> walked.added]

\* the second loop over the filtered events lo..hi, by halves: the
\* appends of the iterations, in order
RECURSIVE ClassifyRange(_, _, _)
ClassifyRange(evs, lo, hi) ==
  IF lo > hi THEN [static |-> <<>>, dynamic |-> <<>>, added |-> {}]
  ELSE IF lo = hi THEN ClassifyEvent(evs[lo])
  ELSE LET mid == (lo + hi) \div 2
           first == ClassifyRange(evs, lo, mid)
           rest == ClassifyRange(evs, mid + 1, hi)
       IN  [static |-> first.static \o rest.static,
            dynamic |-> first.dynamic \o rest.dynamic,
            added |-> first.added \cup rest.added]

\* the second loop over the filtered events
Classify(evs) == ClassifyRange(evs, 1, Len(evs))

\* the loop with >= for >: a later path of the same length replaces the name
RECURSIVE PickLoopLast(_, _, _)
PickLoopLast(events, i, name) ==
  IF i > Len(events) THEN name
  ELSE IF ("Write" \in events[i].Op \/ "Create" \in events[i].Op)
          /\ Len(events[i].Name) >= Len(name)
       THEN PickLoopLast(events, i + 1, events[i].Name)
       ELSE PickLoopLast(events, i + 1, name)

\* pickOneWriteOrCreatePath
RECURSIVE PickLoop(_, _, _)
PickLoop(events, i, name) ==
  IF i > Len(events) THEN name
  ELSE IF ("Write" \in events[i].Op \/ "Create" \in events[i].Op)
          /\ Len(events[i].Name) > Len(name)
       THEN PickLoop(events, i + 1, events[i].Name)
       ELSE PickLoop(events, i + 1, name)

pickOneWriteOrCreatePath(events) == PickLoop(events, 1, <<>>)

\* staticSyncer.d.MakeStaticPathRelative
MakeStaticPathRelative(name) ==
  IF HasPrefix(name, Paths.staticRoot)
  THEN SubSeq(name, Len(Paths.staticRoot) + 1, Len(name))
  ELSE name

(***************************************************************************)
(* State.                                                                  *)
(***************************************************************************)
VARIABLES
  \* the watcher
  pool,               \* the events the file system produces in this run
  buildWatch,         \* c.h.buildWatch
  disableLiveReload,  \* c.Cfg.GetBool("disableLiveReload")
  forceSyncStatic,    \* c.Cfg.GetBool("forceSyncStatic")
  navigateToChanged,  \* c.Cfg.GetBool("navigateToChanged")
  wpc,                \* "select": blocked in select; "handled": end of an iteration
  alive,              \* FALSE once utils.StopOnErr has ended the process
  batch,              \* evs as received from watcher.Events
  filtered,           \* filtered
  staticEvents,       \* staticEvents
  dynamicEvents,      \* dynamicEvents
  calls,              \* the calls the iteration made, in order
  watched,            \* the directories added to the watcher
  \* the debouncer
  debTimer,           \* ticks until the deferred action runs, -1: no timer
  debSince,           \* ticks since the last trigger
  debPending,         \* triggers since the deferred action last ran
  deferred            \* the last run of the deferred action: the triggers it
                      \* answers and the calls it made

watcherVars ==
  << pool, buildWatch, disableLiveReload, forceSyncStatic, navigateToChanged,
     wpc, alive, batch, filtered, staticEvents, dynamicEvents, calls, watched >>

debounceVars == << debTimer, debSince, debPending, deferred >>

VARIABLES
  \* fullBuild
  cleanDestinationDir, \* c.Cfg.GetBool("cleanDestinationDir")
  gc,                  \* c.h.gc
  multihost,           \* c.languages.IsMultihost()
  hugo,                \* Hugo != nil
  fbpc,                \* where fullBuild is: "start", "seqCopy", "seqBuild",
                       \* "wait" (in g.Wait), "done" (returned), "idle"
  csTask,              \* copyStaticFunc: "idle", "running", "ok", "failed"
  csIndex,             \* doWithPublishDirs: index into c.staticDirsConfig
  cnt,                 \* doWithPublishDirs: its local langCount
  bsTask,              \* buildSitesFunc: "idle", "init", "build", "ok", "failed"
  langCount,           \* fullBuild: langCount
  gErr,                \* errgroup.Group: err
  finished,            \* the tasks in the order they returned
  stats,               \* per site: ProcessingStats.Static and .Cleaned
  statsUpdated,        \* the loop of hugo.go:448-450 has run
  gcRan,               \* Hugo.GC(): "no", "ok", "failed"
  fbResult             \* fullBuild's result: "none" until it returns, "nil",
                       \* or the failing step "copyStatic", "buildSites", "GC"

fullBuildVars ==
  << cleanDestinationDir, gc, multihost, hugo, fbpc, csTask, csIndex, cnt,
     bsTask, langCount, gErr, finished, stats, statsUpdated, gcRan, fbResult >>

VARIABLES
  \* renderPages
  sitePages,           \* s.Pages
  rpc,                 \* where renderPages is: "start", "feed", "wait",
                       \* "errs" (in <-errs), "done" (returned), "idle"
  fed,                 \* the pages sent on the pages channel so far
  pagesClosed,         \* close(pages) has run
  resultsClosed,       \* close(results) has run
  wpos,                \* per worker: "none", "recv", "format", "send",
                       \* "paginator", "done", "panic"
  wpage,               \* per worker: the page it holds (index into s.Pages)
  wfmt,                \* per worker: i, the index of the output format
  wsend,               \* per worker: the error it is sending, or NoFailure
  pageOutputInit,      \* per page: page.pageOutputInit has run
  mainPageOutput,      \* per page: page.mainPageOutput, "nil" or "po"
  mainComputed,        \* per page: newPageOutput(page, false, ...) calls
  received,            \* per page: how many workers received it
  processed,           \* the (page, i) pairs whose loop body has started
  logged,              \* the failures written to s.Log.ERROR
  rendered,            \* the (page, i) pairs whose render call returned nil
  paginated,           \* the (page, i) pairs renderPaginator was called for
  sent,                \* the errors the workers sent on results
  errMsgs,             \* errorCollator: the errors it has received
  collator,            \* errorCollator: "none", "range", "send", "done"
  rpResult             \* renderPages' result: "none", "nil" or "error"

renderVars ==
  << sitePages, rpc, fed, pagesClosed, resultsClosed, wpos, wpage, wfmt, wsend,
     pageOutputInit, mainPageOutput, mainComputed, received, processed, logged,
     rendered, paginated, sent, errMsgs, collator, rpResult >>

VARIABLES
  \* renderPaginator
  paginator,           \* p.paginator: 0 when nil, else its number of pagers
  paginatePath,        \* s.Cfg.GetString("paginatePath")
  pgpc,                \* where renderPaginator is: "start", "alias", "pager",
                       \* "done" (returned), "idle"
  pgI,                 \* the index i of the loop over pagers
  pgTarget,            \* target, the path the alias is written at
  pgWrites,            \* what was written to the destination, in order
  pgResult             \* renderPaginator's result: "none", "nil" or "error"

paginatorVars ==
  << paginator, paginatePath, pgpc, pgI, pgTarget, pgWrites, pgResult >>

VARIABLES
  \* Page.TargetPath
  tpPage,              \* the page: Url, the permalink override of its
                       \* section, Slug, FileName, Dir, Extension
  tpOut                \* what TargetPath returned, NoResult before the call

targetPathVars == << tpPage, tpOut >>

\* getDirList, the watcher.Add calls of newWatcher, and the directories
\* created while watching (hugo.go:649-786, 883-887, 993-1014)
VARIABLES
  fsTree,             \* the source file system: a set of [path, kind] nodes
  themeSet,           \* PathSpec().ThemeSet()
  dlpc,               \* "idle", "walking", "nested", "collected",
                      \* "returned", "failed" or "watching"
  dlRoot,             \* the index in WalkRoots of the next root to walk
  dlA,                \* a: the directories appended so far
  nested,             \* the symbolically linked content directories to walk
  seen,               \* the links already put into nested
  watchDirs,          \* the list getDirList returned
  watchSet,           \* what was added to the watcher with watcher.Add
  created             \* the number of directories created while watching

dirListVars ==
  << fsTree, themeSet, dlpc, dlRoot, dlA, nested, seen, watchDirs, watchSet,
     created >>

\* build in watch mode: the watcher and its channels (hugo.go:481-496)
VARIABLES
  bpc,                \* "idle", "watching" (blocked in <-sigs) or "closed"
  chans               \* watcher.Events and watcher.Errors: "open" or "closed"

closeVars == << bpc, chans >>

\* one RSS output format of one page in pageRenderer, and renderRSS
\* (part_000:70-110, 191-232)
VARIABLES
  rssCfg,             \* isEnabled(kindRSS), disableRSS, rssLimit
  rssFirst,           \* the format is the first of the page (i == 0)
  doc,                \* the Document shared with other workers and stages
  docBefore,          \* the Document as it was before the pass
  po,                 \* the page output handed to renderRSS, or NoOutput
  rsspc,              \* "idle", "start", "render", "report" or "done"
  rssErr,             \* the error renderRSS returned, "nil" when none
  rssWrites,          \* the number of feed artifacts written
  rssSent             \* the errors sent on results

rssVars ==
  << rssCfg, rssFirst, doc, docBefore, po, rsspc, rssErr, rssWrites,
     rssSent >>

\* the deferred task of the debouncer (hugo.go:905)
VARIABLES
  taskpc              \* "idle", or "fullRebuild" while the task runs it

taskVars == << taskpc >>

\* the resident site graph and the operations on it
\* (hugo.go:208-215, 788-864)
VARIABLES
  Hugo,               \* the package variable Hugo: NoSites when nil
  siteCfg,            \* disableFastRender, the language and base path setup
  cfgVersion,         \* the configuration c.Cfg holds, counted by reloads
  sitesMade,          \* HugoSites objects created since the last Reset
  visitedURLs,        \* c.visitedURLs
  siteOp,             \* the last operation and the outcomes of its calls
  hugoBefore,         \* Hugo as it was when the last operation began
  siteCalls,          \* the calls the last operation made, in order
  buildCfg,           \* the BuildCfg of the last operation's Hugo.Build
  sitepc              \* "idle", "ready" or "returned"

siteVars ==
  << Hugo, siteCfg, cfgVersion, sitesMade, visitedURLs, siteOp, hugoBefore,
     siteCalls, buildCfg, sitepc >>

vars ==
  << watcherVars, debounceVars, fullBuildVars, renderVars, paginatorVars,
     targetPathVars, dirListVars, closeVars, rssVars, taskVars, siteVars >>

\* what the watch loop leaves alone
notWatcherVars ==
  << fullBuildVars, renderVars, paginatorVars, targetPathVars, dirListVars,
     closeVars, rssVars, taskVars, siteVars >>

\* what fullBuild leaves alone
notFullBuildVars ==
  << watcherVars, debounceVars, renderVars, paginatorVars, targetPathVars,
     dirListVars, closeVars, rssVars, taskVars, siteVars >>

\* what renderPages leaves alone
notRenderVars ==
  << watcherVars, debounceVars, fullBuildVars, paginatorVars,
     targetPathVars, dirListVars, closeVars, rssVars, taskVars, siteVars >>

\* what renderPaginator leaves alone
notPaginatorVars ==
  << watcherVars, debounceVars, fullBuildVars, renderVars, targetPathVars,
     dirListVars, closeVars, rssVars, taskVars, siteVars >>

\* what TargetPath leaves alone
notTargetPathVars ==
  << watcherVars, debounceVars, fullBuildVars, renderVars, paginatorVars,
     dirListVars, closeVars, rssVars, taskVars, siteVars >>

\* what getDirList and the watch set leave alone
notDirListVars ==
  << watcherVars, debounceVars, fullBuildVars, renderVars, paginatorVars,
     targetPathVars, closeVars, rssVars, taskVars, siteVars >>

\* what closing the watcher leaves alone
notCloseVars ==
  << watcherVars, debounceVars, fullBuildVars, renderVars, paginatorVars,
     targetPathVars, dirListVars, rssVars, taskVars, siteVars >>

\* what renderRSS leaves alone
notRssVars ==
  << watcherVars, debounceVars, fullBuildVars, renderVars, paginatorVars,
     targetPathVars, dirListVars, closeVars, taskVars, siteVars >>

\* what the deferred task leaves alone, the watch loop and the debouncer aside
notTaskVars ==
  << fullBuildVars, renderVars, paginatorVars, targetPathVars, dirListVars,
     closeVars, rssVars, siteVars >>

\* what the operations on the site graph leave alone, the watcher aside
notSiteVars ==
  << fullBuildVars, renderVars, paginatorVars,
     targetPathVars, dirListVars, closeVars, rssVars, taskVars >>

Call(op, arg) == [op |-> op, arg |-> arg]

\* the deferred action has not run since the last batch
NoDeferred == [triggers |-> 0, calls |-> <<>>]

\* the outcomes of a call that can fail, when the call is made at all
Outcome(made) == IF made THEN BOOLEAN ELSE {TRUE}

\* the test with both negations dropped
DoLiveReloadNegationsDropped == buildWatch /\ disableLiveReload

\* !c.h.buildWatch && !c.Cfg.GetBool("disableLiveReload")
DoLiveReload == ~buildWatch /\ ~disableLiveReload

(***************************************************************************)
(* fullRebuild: reload the config, rebuild the sites, refresh the clients. *)
(***************************************************************************)
\* fullRebuild going on to the rebuild after a failed reload
FullRebuildAfterFailedReload(cfgOk, buildOk) ==
  << Call("fullRebuild", <<>>), Call("loadConfig", <<>>),
     Call("recreateAndBuildSites", <<>>) >>
    \o (IF buildOk /\ DoLiveReload
        THEN << Call("ForceRefresh", <<>>) >> ELSE <<>>)

FullRebuild(cfgOk, buildOk) ==
  << Call("fullRebuild", <<>>), Call("loadConfig", <<>>) >>
    \o (IF ~cfgOk THEN <<>>
        ELSE << Call("recreateAndBuildSites", <<>>) >>
               \o (IF buildOk /\ DoLiveReload
                   THEN << Call("ForceRefresh", <<>>) >> ELSE <<>>))

(***************************************************************************)
(* The debouncer c.debounce.                                               *)
(***************************************************************************)
\* c.debounce(f): (re)start the timer
DebounceTrigger ==
  /\ debTimer' = DebounceWindow
  /\ debSince' = 0
  /\ debPending' = debPending + 1

\* the deferred action running before the window has elapsed
TimerExpiredEarly == debTimer >= 0

\* the deferred action may run
TimerExpired == debTimer = 0

\* a unit of time passes while the timer runs
Tick ==
  /\ wpc = "select"
  /\ debTimer > 0
  /\ debTimer' = debTimer - 1
  /\ debSince' = debSince + 1
  /\ UNCHANGED << debPending, deferred, watcherVars, notWatcherVars >>

\* the timer fires: the deferred task runs c.fullRebuild
DeferredFullRebuild ==
  /\ alive
  /\ wpc = "select"
  /\ TimerExpired
  /\ \E cfgOk \in BOOLEAN : \E buildOk \in Outcome(cfgOk) :
       deferred' = [triggers |-> debPending, calls |-> FullRebuild(cfgOk, buildOk)]
  /\ debTimer' = -1
  /\ debSince' = 0
  /\ debPending' = 0
  /\ UNCHANGED << watcherVars, notWatcherVars >>

(***************************************************************************)
(* One iteration of the watch loop, case evs := <-watcher.Events.          *)
(***************************************************************************)
\* the handling of staticEvents
StaticCalls(static, syncOk) ==
  IF Len(static) = 0 THEN <<>>
  ELSE (IF forceSyncStatic
        THEN << Call("copyStatic", <<>>) >>
               \o (IF syncOk THEN <<>> ELSE << Call("StopOnErr", <<>>) >>)
        ELSE << Call("syncsStaticEvents", static) >>
               \o (IF syncOk THEN <<>>
                   ELSE << Call("ERROR", << "syncsStaticEvents" >>) >>))
       \o (IF syncOk /\ DoLiveReload
           THEN [j \in 1..Len(static) |->
                   Call("RefreshPath", MakeStaticPathRelative(static[j].Name))]
           ELSE <<>>)

\* the handling of dynamicEvents
DynamicCalls(dynamic, rebuildOk, pageFound) ==
  IF Len(dynamic) = 0 THEN <<>>
  ELSE << Call("rebuildSites", dynamic) >>
       \o (IF rebuildOk THEN <<>>
           ELSE << Call("ERROR", << "rebuildSites" >>) >>)
       \o (IF ~DoLiveReload THEN <<>>
           ELSE (IF navigateToChanged
                    /\ pickOneWriteOrCreatePath(dynamic) # <<>>
                 THEN << Call("GetContentPage",
                              << pickOneWriteOrCreatePath(dynamic),
                                 IF pageFound THEN "page" ELSE "nil" >>) >>
                 ELSE <<>>)
                \o (IF navigateToChanged
                       /\ pickOneWriteOrCreatePath(dynamic) # <<>>
                       /\ pageFound
                    THEN << Call("NavigateToPathForPort",
                                 pickOneWriteOrCreatePath(dynamic)) >>
                    ELSE << Call("ForceRefresh", <<>>) >>))

\* a batch above the storm threshold: schedule a full rebuild, continue
HandleStorm(evs) ==
  /\ IsStorm(evs)
  /\ debPending < MaxPending
  /\ DebounceTrigger
  /\ deferred' = NoDeferred
  /\ batch' = evs
  /\ filtered' = <<>>
  /\ staticEvents' = <<>>
  /\ dynamicEvents' = <<>>
  /\ calls' = << Call("debounce", <<>>) >>
  /\ wpc' = "handled"
  /\ UNCHANGED << pool, buildWatch, disableLiveReload, forceSyncStatic,
                  navigateToChanged, alive, watched, notWatcherVars >>

\* an ordinary batch, handled without the continue after a failed resync
HandleBatchNoContinue(evs) ==
  /\ ~IsStorm(evs)
  /\ \E f \in {Filter(evs)} :
     \E c \in {Classify(f.filtered)} :
     \E hasStatic \in {Len(c.static) > 0} :
         \E cfgOk \in Outcome(f.config > 0) :
         \E buildOk \in Outcome(f.config > 0 /\ cfgOk) :
         \E syncOk \in Outcome(hasStatic) :
         \E rebuildOk \in Outcome(Len(c.dynamic) > 0) :
         \E pageFound \in Outcome(Len(c.dynamic) > 0
                                    /\ DoLiveReload /\ navigateToChanged) :
           /\ batch' = evs
           /\ filtered' = f.filtered
           /\ staticEvents' = c.static
           /\ dynamicEvents' = c.dynamic
           /\ watched' = watched \cup c.added
           /\ calls' = (IF f.config > 0 THEN FullRebuild(cfgOk, buildOk) ELSE <<>>)
                         \o StaticCalls(c.static, syncOk)
                         \o DynamicCalls(c.dynamic, rebuildOk, pageFound)
           /\ alive' = ~(hasStatic /\ forceSyncStatic /\ ~syncOk)
  /\ wpc' = "handled"
  /\ deferred' = NoDeferred
  /\ UNCHANGED << pool, buildWatch, disableLiveReload, forceSyncStatic,
                  navigateToChanged, debTimer, debSince, debPending,
                  notWatcherVars >>

\* an ordinary batch
HandleBatch(evs) ==
  /\ ~IsStorm(evs)
  /\ \E f \in {Filter(evs)} :
     \E c \in {Classify(f.filtered)} :
     \E hasStatic \in {Len(c.static) > 0} :
         \E cfgOk \in Outcome(f.config > 0) :
         \E buildOk \in Outcome(f.config > 0 /\ cfgOk) :
         \E syncOk \in Outcome(hasStatic) :
         \E rebuildOk \in Outcome((~hasStatic \/ syncOk) /\ Len(c.dynamic) > 0) :
         \E pageFound \in Outcome((~hasStatic \/ syncOk) /\ Len(c.dynamic) > 0
                                    /\ DoLiveReload /\ navigateToChanged) :
           /\ batch' = evs
           /\ filtered' = f.filtered
           /\ staticEvents' = c.static
           /\ dynamicEvents' = c.dynamic
           /\ watched' = watched \cup c.added
           /\ calls' = (IF f.config > 0 THEN FullRebuild(cfgOk, buildOk) ELSE <<>>)
                         \o StaticCalls(c.static, syncOk)
                         \o (IF hasStatic /\ ~syncOk THEN <<>>
                             ELSE DynamicCalls(c.dynamic, rebuildOk, pageFound))
           /\ alive' = ~(hasStatic /\ forceSyncStatic /\ ~syncOk)
  /\ wpc' = "handled"
  /\ deferred' = NoDeferred
  /\ UNCHANGED << pool, buildWatch, disableLiveReload, forceSyncStatic,
                  navigateToChanged, debTimer, debSince, debPending,
                  notWatcherVars >>

\* case evs := <-watcher.Events
ReceiveEvents ==
  /\ alive
  /\ wpc = "select"
  /\ bpc # "closed"
  /\ \E evs \in Batches(pool) : HandleStorm(evs) \/ HandleBatch(evs)

\* the for loop starts its next iteration and blocks in select again
NextIteration ==
  /\ alive
  /\ wpc = "handled"
  /\ wpc' = "select"
  /\ batch' = <<>>
  /\ filtered' = <<>>
  /\ staticEvents' = <<>>
  /\ dynamicEvents' = <<>>
  /\ calls' = <<>>
  /\ UNCHANGED << pool, buildWatch, disableLiveReload, forceSyncStatic,
                  navigateToChanged, alive, watched, debounceVars,
                  notWatcherVars >>

\* the languages, and the sites of Hugo.Sites by language
Langs == 1..NumLanguages

\* the render workers
Workers == 1..NumWorkers

\* a Go map with no entries (also the nil map: a lookup yields zero)
EmptyMap == [l \in {} |-> 0]

\* fullBuild is not running: the previous build has returned
FullBuildIdle ==
  /\ cleanDestinationDir = FALSE
  /\ gc = FALSE
  /\ multihost = FALSE
  /\ hugo = TRUE
  /\ fbpc = "idle"
  /\ csTask = "idle"
  /\ csIndex = 1
  /\ cnt = EmptyMap
  /\ bsTask = "idle"
  /\ langCount = EmptyMap
  /\ gErr = "nil"
  /\ finished = <<>>
  /\ stats = [l \in Langs |-> [Static |-> 0, Cleaned |-> 0]]
  /\ statsUpdated = FALSE
  /\ gcRan = "no"
  /\ fbResult = "none"

\* a worker that is sending no error
NoFailure == [page |-> 0, format |-> 0, kind |-> "nil"]

\* renderPages is not running
RenderIdle ==
  /\ sitePages = <<>>
  /\ rpc = "idle"
  /\ fed = 0
  /\ pagesClosed = FALSE
  /\ resultsClosed = FALSE
  /\ wpos = [w \in Workers |-> "none"]
  /\ wpage = [w \in Workers |-> 0]
  /\ wfmt = [w \in Workers |-> 0]
  /\ wsend = [w \in Workers |-> NoFailure]
  /\ pageOutputInit = <<>>
  /\ mainPageOutput = <<>>
  /\ mainComputed = <<>>
  /\ received = <<>>
  /\ processed = {}
  /\ logged = {}
  /\ rendered = {}
  /\ paginated = {}
  /\ sent = {}
  /\ errMsgs = {}
  /\ collator = "none"
  /\ rpResult = "none"

\* TargetPath has not returned
NoResult == [outfile |-> <<>>, source |-> "none"]

\* TargetPath is not being computed
TargetPathIdle ==
  /\ tpPage = "none"
  /\ tpOut = NoResult

\* no page output
NoOutput ==
  [Kind |-> "none", Date |-> "none", Pages |-> <<>>, DataPages |-> <<>>]

\* no RSS format is being rendered
RssIdle ==
  /\ rssCfg = [enabled |-> FALSE, disableRSS |-> FALSE, rssLimit |-> 0]
  /\ rssFirst = FALSE
  /\ doc = NoOutput
  /\ docBefore = NoOutput
  /\ po = NoOutput
  /\ rsspc = "idle"
  /\ rssErr = "nil"
  /\ rssWrites = 0
  /\ rssSent = <<>>

\* the deferred task of the debouncer is not running
TaskIdle == taskpc = "idle"

\* the configuration reloads of a run
MaxReloads == 2

\* Hugo == nil
NoSites == [resident |-> FALSE, cfg |-> -1, sitesFrom |-> -1]

\* Hugo.Build was not called
NoBuild == [kind |-> "none", RecentlyVisited |-> {}]

\* no operation on the site graph yet
NoOp == [op |-> "none", cfgOk |-> TRUE, newOk |-> TRUE, buildOk |-> TRUE]

\* no operation on the site graph is modelled
SiteIdle ==
  /\ Hugo = NoSites
  /\ siteCfg = [disableFastRender |-> FALSE, defaultInSubdir |-> FALSE,
                basePath |-> <<>>]
  /\ cfgVersion = 0
  /\ sitesMade = 0
  /\ visitedURLs = {}
  /\ siteOp = NoOp
  /\ hugoBefore = NoSites
  /\ siteCalls = <<>>
  /\ buildCfg = NoBuild
  /\ sitepc = "idle"

\* build is not in its watch mode: nothing closes the watcher
CloseIdle ==
  /\ bpc = "idle"
  /\ chans = [events |-> "open", errors |-> "open"]

\* getDirList has not been called
DirListIdle ==
  /\ fsTree = {}
  /\ themeSet = FALSE
  /\ dlpc = "idle"
  /\ dlRoot = 0
  /\ dlA = <<>>
  /\ nested = <<>>
  /\ seen = {}
  /\ watchDirs = <<>>
  /\ watchSet = {}
  /\ created = 0

\* renderPaginator is not running
PaginatorIdle ==
  /\ paginator = 0
  /\ paginatePath = <<>>
  /\ pgpc = "idle"
  /\ pgI = 0
  /\ pgTarget = <<>>
  /\ pgWrites = <<>>
  /\ pgResult = "none"

\* the watch loop has not been started
WatcherIdle ==
  /\ pool = {}
  /\ buildWatch = FALSE
  /\ disableLiveReload = FALSE
  /\ forceSyncStatic = FALSE
  /\ navigateToChanged = FALSE
  /\ wpc = "idle"
  /\ alive = TRUE
  /\ batch = <<>>
  /\ filtered = <<>>
  /\ staticEvents = <<>>
  /\ dynamicEvents = <<>>
  /\ calls = <<>>
  /\ watched = {}
  /\ debTimer = -1
  /\ debSince = 0
  /\ debPending = 0
  /\ deferred = NoDeferred

Init ==
  /\ SiteIdle
  /\ TaskIdle
  /\ RssIdle
  /\ FullBuildIdle
  /\ RenderIdle
  /\ PaginatorIdle
  /\ TargetPathIdle
  /\ DirListIdle
  /\ CloseIdle
  /\ pool \in Pools
  /\ buildWatch \in BOOLEAN
  /\ disableLiveReload \in BOOLEAN
  /\ buildWatch => disableLiveReload
  /\ forceSyncStatic \in BOOLEAN
  /\ navigateToChanged \in BOOLEAN
  /\ wpc = "select"
  /\ alive = TRUE
  /\ batch = <<>>
  /\ filtered = <<>>
  /\ staticEvents = <<>>
  /\ dynamicEvents = <<>>
  /\ calls = <<>>
  /\ watched = {Paths.contentRoot, Paths.staticDir}
  /\ debTimer = -1
  /\ debSince = 0
  /\ debPending = 0
  /\ deferred = NoDeferred

Next ==
  \/ ReceiveEvents
  \/ NextIteration
  \/ Tick
  \/ DeferredFullRebuild

Spec == Init /\ [][Next]_vars

(***************************************************************************)
(* Properties of the watch loop.                                           *)
(***************************************************************************)
\* the events of a sequence
Range(seq) == {seq[i] : i \in 1..Len(seq)}

\* the operations of the calls of the last iteration
CallOps == {calls[i].op : i \in 1..Len(calls)}

\* the number of calls of op in the last iteration
CountCalls(op) == Cardinality({i \in 1..Len(calls) : calls[i].op = op})

\* the batch holds an event on a config file whose operation has no Chmod bit
HasConfigChange ==
  \E i \in 1..Len(batch) : batch[i].Name \in ConfigSet /\ "Chmod" \notin batch[i].Op

\* C1: a batch of at most 50 events that holds a config file event without
\* the Chmod bit, at any position, makes the loop call fullRebuild exactly
\* once and neither resync static files nor call rebuildSites.
C1_ConfigChangeShortCircuitsBatch ==
  (wpc = "handled" /\ Len(batch) <= StormThreshold /\ HasConfigChange)
    => /\ CountCalls("fullRebuild") = 1
       /\ CallOps \cap {"syncsStaticEvents", "copyStatic", "rebuildSites"} = {}

\* C2: a batch of more than 50 events makes the loop call debounce once and
\* do nothing else: nothing is rewritten, classified, synced, rebuilt or
\* announced; a batch of at most 50 events never calls debounce.
C2_StormOnlyDebounces ==
  [][ (wpc = "select" /\ wpc' = "handled")
        => IF Len(batch') > StormThreshold
           THEN /\ calls' = << Call("debounce", <<>>) >>
                /\ debPending' = debPending + 1
                /\ debTimer' = DebounceWindow
                /\ filtered' = <<>>
                /\ staticEvents' = <<>>
                /\ dynamicEvents' = <<>>
                /\ watched' = watched
                /\ alive' = alive
           ELSE /\ "debounce" \notin {calls'[i].op : i \in 1..Len(calls')}
                /\ debPending' = debPending
                /\ debTimer' = debTimer ]_vars

\* C2 witness: a storm batch has been answered by the debounce call alone
C2_Witness ==
  /\ wpc = "handled"
  /\ Len(batch) = StormThreshold + 1
  /\ calls = << Call("debounce", <<>>) >>
  /\ debPending = 2

\* C3: triggers that follow each other within the idle window are answered
\* by one run of fullRebuild, and the run comes only after the window has
\* elapsed since the last trigger: a timer is pending exactly while there
\* are unanswered triggers, and a run answers all of them and leaves no timer.
C3_DebounceCoalesces ==
  /\ [](debTimer = -1 <=> debPending = 0)
  /\ [][ deferred' # deferred /\ deferred' # NoDeferred
           => /\ debSince >= DebounceWindow
              /\ debPending >= 1
              /\ deferred'.triggers = debPending
              /\ debPending' = 0
              /\ debTimer' = -1 ]_vars

\* C3 witness: one run of fullRebuild has answered two triggers
C3_Witness ==
  /\ deferred.triggers = 2
  /\ deferred.calls # <<>>
  /\ debPending = 0
  /\ debTimer = -1

\* the declared noise patterns, by the base name of the file and by the
\* extension of that name
DeclaredNoise(name) ==
  LET base == Base(name)
  IN  \/ \E suffix \in { <<"~">>, <<".", "s", "w", "p">>, <<".", "s", "w", "x">>,
                         <<".", "t", "m", "p">>,
                         <<".", "D", "S", "_", "S", "t", "o", "r", "e">>,
                         <<"j", "b", "_", "o", "l", "d", "_", "_", "_">>,
                         <<"j", "b", "_", "t", "m", "p", "_", "_", "_">>,
                         <<"j", "b", "_", "b", "a", "k", "_", "_", "_">> } :
           HasSuffix(base, suffix)
      \/ base = <<"4", "9", "1", "3">>
      \/ \E prefix \in { <<".", "g", "o", "u", "t", "p", "u", "t",
                           "s", "t", "r", "e", "a", "m">>,
                         <<".", "s", "b", "-">> } :
           HasPrefix(Ext(name), prefix)
      \/ \E prefix \in { <<".", "#">>, <<"#">> } : HasPrefix(base, prefix)

\* C7: an event whose base name matches a declared noise pattern, or whose
\* path is empty, is in neither staticEvents nor dynamicEvents, so that it
\* is never resynced and never rebuilt.
C7_NoiseIsNeverClassified ==
  wpc = "handled"
    => \A e \in Range(staticEvents) \cup Range(dynamicEvents) :
         e.Name # <<>> /\ ~DeclaredNoise(e.Name)

\* C8: of the events that reach the Chmod test, one with the Chmod bit and
\* neither Write nor Create is dropped, and one with Chmod together with
\* Write or Create is classified as static or dynamic by its path.
C8_ChmodOnlyIsDiscarded ==
  wpc = "handled"
    => \A e \in Range(filtered) :
         (~IsTemp(e.Name) /\ e.Name # <<>> /\ "Chmod" \in e.Op)
           => IF "Write" \in e.Op \/ "Create" \in e.Op
              THEN IF IsStatic(e.Name)
                   THEN e \in Range(staticEvents) /\ e \notin Range(dynamicEvents)
                   ELSE e \in Range(dynamicEvents) /\ e \notin Range(staticEvents)
              ELSE e \notin Range(staticEvents) \cup Range(dynamicEvents)

\* C8 witness: a batch with a Chmod event and a Chmod+Write event on a
\* content file has been handled and only the second one is rebuilt
C8_Witness ==
  /\ wpc = "handled"
  /\ batch = << Ev(Paths.contentA, {"Chmod"}), Ev(Paths.contentA, {"Chmod", "Write"}) >>
  /\ dynamicEvents = << Ev(Paths.contentA, {"Chmod", "Write"}) >>
  /\ "rebuildSites" \in CallOps

\* what the symbolic link handling makes of one event: one event per link
\* location mapped to its path, else one per link location mapped to its
\* directory, with the file name appended; the event itself when neither
\* its path nor its directory is mapped
MappedEvents(ev) ==
  LET byPath == GetSymbolicLinkMappings(ev.Name)
      byDir == GetSymbolicLinkMappings(Split(ev.Name).dir)
  IN  IF Len(byPath) >= 1
      THEN [j \in 1..Len(byPath) |-> [Name |-> byPath[j], Op |-> ev.Op]]
      ELSE IF Len(byDir) >= 1
      THEN [j \in 1..Len(byDir) |->
              [Name |-> StripTrailingSeparators(byDir[j]) \o <<"/">> \o Split(ev.Name).file,
               Op |-> ev.Op]]
      ELSE << ev >>

\* C9 as claimed: every event of an ordinary batch is replaced in filtered
\* by its mapped events, or passes through unchanged, in batch order.
C9_EveryEventIsRewritten ==
  (wpc = "handled" /\ Len(batch) <= StormThreshold)
    => filtered = ConcatRange([i \in 1..Len(batch) |-> MappedEvents(batch[i])],
                              1, Len(batch))

\* C9 as amended: the events of an ordinary batch that precede its first
\* config file event without the Chmod bit, config file events left out,
\* are replaced in filtered by their mapped events or pass through
\* unchanged, in batch order and before any noise filtering; the other
\* events of the batch do not reach filtered.
C9_EventsBeforeConfigChangeAreRewritten ==
  (wpc = "handled" /\ Len(batch) <= StormThreshold)
    => LET changes == {i \in 1..Len(batch) :
                         batch[i].Name \in ConfigSet /\ "Chmod" \notin batch[i].Op}
           last == IF changes = {} THEN Len(batch)
                   ELSE (CHOOSE i \in changes : \A j \in changes : i <= j) - 1
       IN  filtered =
             ConcatRange([i \in 1..last |->
                            IF batch[i].Name \in ConfigSet THEN <<>>
                            ELSE MappedEvents(batch[i])], 1, last)

\* C9 witness: an event in a linked directory has been replaced by one event
\* per link location, a temporary file among them, with its operation kept
C9_Witness ==
  /\ wpc = "handled"
  /\ batch = << Ev(Paths.realTmp, {"Write"}), Ev(Paths.realF, {"Create"}) >>
  /\ filtered = << Ev(Paths.linkP \o <<"/", "a", ".", "t", "m", "p">>, {"Write"}),
                   Ev(Paths.linkQ \o <<"/", "a", ".", "t", "m", "p">>, {"Write"}),
                   Ev(Paths.linkF, {"Create"}) >>
  /\ dynamicEvents = << Ev(Paths.linkF, {"Create"}) >>

\* ---- live reload after the dynamic events (hugo.go:1057-1088) ----

\* the positions in calls of the live-reload signals emitted after position i
SignalsAfter(i) ==
  {j \in (i + 1)..Len(calls) :
      calls[j].op \in {"NavigateToPathForPort", "ForceRefresh"}}

\* rebuildSites at position i returned an error (the error is logged next)
RebuildFailed(i) == i < Len(calls) /\ calls[i + 1].op = "ERROR"

\* the picked Write/Create path was looked up and resolved to a page
PageResolved(i) ==
  \E j \in (i + 1)..Len(calls) :
      calls[j].op = "GetContentPage" /\ calls[j].arg[2] = "page"

\* C18: after the dynamic events were handed to rebuildSites, a live-reload
\* signal is emitted only if the rebuild succeeded and live reload is enabled
\* (none after a failed rebuild); on success exactly one signal is emitted,
\* and it is navigate-to-path iff navigateToChanged is set and the picked
\* Write/Create path resolves to a page, force-refresh otherwise.
C18_LiveReloadOnlyAfterSuccessfulRebuild ==
  wpc = "handled" =>
    \A i \in 1..Len(calls) :
      calls[i].op = "rebuildSites" =>
        /\ (SignalsAfter(i) # {} => (~RebuildFailed(i) /\ DoLiveReload))
        /\ ((~RebuildFailed(i) /\ DoLiveReload) =>
              /\ Cardinality(SignalsAfter(i)) = 1
              /\ ((\E j \in SignalsAfter(i) :
                      calls[j].op = "NavigateToPathForPort")
                    <=> (navigateToChanged /\ PageResolved(i))))

\* the part of C18 that does not depend on the outcome of the rebuild
C18_SuccessPart ==
  wpc = "handled" =>
    \A i \in 1..Len(calls) :
      (calls[i].op = "rebuildSites" /\ ~RebuildFailed(i) /\ DoLiveReload) =>
        /\ Cardinality(SignalsAfter(i)) = 1
        /\ ((\E j \in SignalsAfter(i) :
                calls[j].op = "NavigateToPathForPort")
              <=> (navigateToChanged /\ PageResolved(i)))

\* ---- live reload after the static events (hugo.go:1023-1055) ----

\* the position of the rebuildSites call, past the end when there is none
RebuildPosition ==
  IF \E i \in 1..Len(calls) : calls[i].op = "rebuildSites"
  THEN CHOOSE i \in 1..Len(calls) : calls[i].op = "rebuildSites"
  ELSE Len(calls) + 1

\* the refreshes of either kind emitted by the handling of the static events
\* whose resync is at position i
StaticRefreshes(i) ==
  {j \in (i + 1)..(RebuildPosition - 1) :
      calls[j].op \in {"RefreshPath", "ForceRefresh"}}

\* the resync at position i returned an error
SyncFailed(i) ==
  i < Len(calls) /\ calls[i + 1].op \in {"ERROR", "StopOnErr"}

\* the static files the batch changed, as the paths live reload is given
ChangedStaticFiles ==
  {MakeStaticPathRelative(staticEvents[k].Name) : k \in 1..Len(staticEvents)}

\* C19: after a successful resync of the static events with live reload
\* enabled, the watcher emits one RefreshPath per changed static file, or a
\* single ForceRefresh; after a failed incremental resync it emits no refresh
\* of either kind.
C19_OneRefreshPerStaticFile ==
  wpc = "handled" =>
    \A i \in 1..Len(calls) :
      /\ (calls[i].op \in {"syncsStaticEvents", "copyStatic"}
            /\ ~SyncFailed(i) /\ DoLiveReload) =>
           \/ /\ \A j \in StaticRefreshes(i) : calls[j].op = "RefreshPath"
              /\ {calls[j].arg : j \in StaticRefreshes(i)} = ChangedStaticFiles
              /\ Cardinality(StaticRefreshes(i)) = Cardinality(ChangedStaticFiles)
           \/ /\ Cardinality(StaticRefreshes(i)) = 1
              /\ \A j \in StaticRefreshes(i) : calls[j].op = "ForceRefresh"
      /\ (calls[i].op = "syncsStaticEvents" /\ SyncFailed(i)) =>
           StaticRefreshes(i) = {}

\* what the loop of hugo.go:1045-1049 does: one RefreshPath per static event,
\* in the order of the events, and never a ForceRefresh; none after a failure
C19_OneRefreshPerStaticEvent ==
  wpc = "handled" =>
    \A i \in 1..Len(calls) :
      calls[i].op \in {"syncsStaticEvents", "copyStatic"} =>
        IF ~SyncFailed(i) /\ DoLiveReload
        THEN /\ StaticRefreshes(i) = (i + 1)..(i + Len(staticEvents))
             /\ \A k \in 1..Len(staticEvents) :
                  calls[i + k] = Call("RefreshPath",
                                      MakeStaticPathRelative(staticEvents[k].Name))
        ELSE StaticRefreshes(i) = {}

\* ---- failures inside one cycle (hugo.go:856-864, 1028-1039, 1065-1067) ----

\* C21: a failure inside one cycle (config reload, site rebuild, static
\* sync with or without forceSyncStatic) never terminates the process or
\* the watcher loop: after every handled batch the loop starts its next
\* iteration and awaits events again.
C21_FailureNeverStopsTheLoop ==
  /\ alive
  /\ wpc = "handled" => ENABLED NextIteration

\* the one failure that does end the process: copyStatic failing under
\* forceSyncStatic, through utils.StopOnErr; nothing else does
C21_OnlyForcedSyncStops ==
  ~alive <=> (wpc = "handled" /\ forceSyncStatic /\ "StopOnErr" \in CallOps)

\* the files and directories of the source tree that events can create
CreatedTree ==
  { [path |-> Paths.newDir, isDir |-> TRUE],
    [path |-> Paths.newSubDir, isDir |-> TRUE],
    [path |-> Paths.newDirFile, isDir |-> FALSE],
    [path |-> Paths.newStDir, isDir |-> TRUE],
    [path |-> Paths.newStFile, isDir |-> FALSE] }

\* the entries of the tree rooted at a path, the root included
TreeAt(root) ==
  { e \in CreatedTree :
      e.path = root \/ HasPrefix(e.path, root \o << "/" >>) }

\* the positions of the filtered events that are no noise, have the Create
\* bit and name a directory
DirCreations ==
  { i \in 1..Len(filtered) :
      /\ \E e \in CreatedTree : e.isDir /\ e.path = filtered[i].Name
      /\ "Create" \in filtered[i].Op
      /\ ~IsSkipped(filtered[i]) }

\* the directories of the trees created with this batch
DirsCreated ==
  { e.path : e \in { e \in UNION { TreeAt(filtered[i].Name) : i \in DirCreations } :
                       e.isDir } }

\* how often an event is in a list
Occurrences(events, ev) ==
  Cardinality({ i \in 1..Len(events) : events[i] = ev })

\* the handled batch has added the directories of every created tree to
\* the watch set and one Create event per non-static file of such a tree
\* to the dynamic events
TreesAdded ==
  (wpc = "handled" /\ ~IsStorm(batch)) =>
    /\ DirsCreated \subseteq watched
    /\ \A e \in CreatedTree :
         (~e.isDir /\ ~HasPrefix(e.path, Paths.staticRoot)) =>
           Occurrences(dynamicEvents, Ev(e.path, {"Create"}))
             = Cardinality({ i \in DirCreations : e \in TreeAt(filtered[i].Name) })
                 + Cardinality({ i \in 1..Len(filtered) :
                                   filtered[i] = Ev(e.path, {"Create"}) })
    /\ \A e \in CreatedTree :
         (~e.isDir /\ HasPrefix(e.path, Paths.staticRoot)) =>
           Occurrences(dynamicEvents, Ev(e.path, {"Create"})) = 0

\* the pool of the runs about created directories
CreatePool == CHOOSE p \in Pools : Ev(Paths.newDir, {"Create"}) \in p

InitCreate ==
  /\ Init
  /\ pool = CreatePool

SpecCreate == InitCreate /\ [][Next]_vars

Lookup(m, l) == IF l \in DOMAIN m THEN m[l] ELSE 0

\* m[l] = v
MapPut(m, l, v) == [k \in DOMAIN m \cup {l} |-> IF k = l THEN v ELSE m[k]]

\* c.staticDirsConfig, each entry given by its dirs.Language (0: nil)
StaticDirsConfig ==
  IF multihost THEN [i \in 1..NumLanguages |-> i] ELSE << 0 >>

\* the two tasks are run concurrently whatever the configuration says
RunsSequentiallyNever == FALSE

\* if c.Cfg.GetBool("cleanDestinationDir")
RunsSequentially == cleanDestinationDir

\* the error of the task that failed last replaces the recorded one
RecordLastError(err) == err

\* errgroup: the first error a task returns is the one Wait returns
RecordError(err) == IF gErr = "nil" THEN err ELSE gErr

\* a task function returns: under g.Go its error is recorded by the group
TaskReturns(task, ok) ==
  /\ finished' = Append(finished, task)
  /\ gErr' = IF fbpc = "wait" /\ ~ok THEN RecordError(task) ELSE gErr

\* the join lets go as soon as one task has failed
JoinReadyFailFast ==
  \/ csTask \in {"ok", "failed"} /\ bsTask \in {"ok", "failed"}
  \/ gErr # "nil"

\* g.Wait() returns: every function passed to g.Go has returned
JoinReady == csTask \in {"ok", "failed"} /\ bsTask \in {"ok", "failed"}

\* fullBuild starts: the branch on cleanDestinationDir
FullBuildBegin ==
  /\ fbpc = "start"
  /\ csTask' = "running"
  /\ IF RunsSequentially
     THEN fbpc' = "seqCopy" /\ bsTask' = bsTask
     ELSE fbpc' = "wait" /\ bsTask' = "init"
  /\ UNCHANGED << cleanDestinationDir, gc, multihost, hugo, csIndex, cnt,
                  langCount, gErr, finished, stats, statsUpdated, gcRan,
                  fbResult, notFullBuildVars >>

\* doWithPublishDirs: one iteration of the loop over c.staticDirsConfig
CopyStaticStep ==
  /\ csTask = "running"
  /\ csIndex <= Len(StaticDirsConfig)
  /\ \E ok \in BOOLEAN : \E n \in (IF ok THEN 0..MaxCount ELSE {0}) :
       IF ok
       THEN /\ cnt' = (IF StaticDirsConfig[csIndex] = 0
                       THEN [l \in Langs |-> n]
                       ELSE MapPut(cnt, StaticDirsConfig[csIndex], n))
            /\ csIndex' = csIndex + 1
            /\ UNCHANGED << csTask, finished, gErr >>
       ELSE /\ csTask' = "failed"
            /\ TaskReturns("copyStatic", FALSE)
            /\ UNCHANGED << cnt, csIndex >>
  /\ UNCHANGED << cleanDestinationDir, gc, multihost, hugo, fbpc, bsTask,
                  langCount, stats, statsUpdated, gcRan, fbResult,
                  notFullBuildVars >>

\* copyStaticFunc returning without the assignment to langCount
CopyStaticReturnDropsCount ==
  /\ csTask = "running"
  /\ csIndex > Len(StaticDirsConfig)
  /\ langCount' = langCount
  /\ csTask' = "ok"
  /\ TaskReturns("copyStatic", TRUE)
  /\ UNCHANGED << cleanDestinationDir, gc, multihost, hugo, fbpc, csIndex,
                  cnt, bsTask, stats, statsUpdated, gcRan, fbResult,
                  notFullBuildVars >>

\* copyStaticFunc: langCount = cnt; return nil
CopyStaticReturn ==
  /\ csTask = "running"
  /\ csIndex > Len(StaticDirsConfig)
  /\ langCount' = cnt
  /\ csTask' = "ok"
  /\ TaskReturns("copyStatic", TRUE)
  /\ UNCHANGED << cleanDestinationDir, gc, multihost, hugo, fbpc, csIndex,
                  cnt, bsTask, stats, statsUpdated, gcRan, fbResult,
                  notFullBuildVars >>

\* buildSites: c.initSites()
BuildSitesInit ==
  /\ bsTask = "init"
  /\ \E ok \in Outcome(~hugo) :
       IF ok
       THEN hugo' = TRUE /\ bsTask' = "build" /\ UNCHANGED << finished, gErr >>
       ELSE hugo' = hugo /\ bsTask' = "failed"
            /\ TaskReturns("buildSites", FALSE)
  /\ UNCHANGED << cleanDestinationDir, gc, multihost, fbpc, csTask, csIndex,
                  cnt, langCount, stats, statsUpdated, gcRan, fbResult,
                  notFullBuildVars >>

\* buildSites: Hugo.Build(hugolib.BuildCfg{})
BuildSitesBuild ==
  /\ bsTask = "build"
  /\ \E ok \in BOOLEAN :
       /\ bsTask' = IF ok THEN "ok" ELSE "failed"
       /\ TaskReturns("buildSites", ok)
  /\ UNCHANGED << cleanDestinationDir, gc, multihost, hugo, fbpc, csTask,
                  csIndex, cnt, langCount, stats, statsUpdated, gcRan,
                  fbResult, notFullBuildVars >>

\* the rest of fullBuild once both tasks succeeded: the Static counts are
\* merged into the sites' statistics, then the optional GC pass
FinishFullBuild ==
  \E gcOk \in Outcome(gc) : \E count \in (IF gc /\ gcOk THEN 0..MaxCount ELSE {0}) :
    /\ stats' = [l \in Langs |->
                   [Static  |-> Lookup(langCount, l),
                    Cleaned |-> IF gc /\ gcOk THEN count ELSE stats[l].Cleaned]]
    /\ statsUpdated' = TRUE
    /\ gcRan' = IF ~gc THEN "no" ELSE IF gcOk THEN "ok" ELSE "failed"
    /\ fbResult' = IF gc /\ ~gcOk THEN "GC" ELSE "nil"
    /\ fbpc' = "done"

\* sequential case: copyStaticFunc has returned
SequentialCopyReturned ==
  /\ fbpc = "seqCopy"
  /\ csTask \in {"ok", "failed"}
  /\ IF csTask = "failed"
     THEN fbResult' = "copyStatic" /\ fbpc' = "done" /\ bsTask' = bsTask
     ELSE fbResult' = fbResult /\ fbpc' = "seqBuild" /\ bsTask' = "init"
  /\ UNCHANGED << cleanDestinationDir, gc, multihost, hugo, csTask, csIndex,
                  cnt, langCount, gErr, finished, stats, statsUpdated, gcRan,
                  notFullBuildVars >>

\* sequential case: buildSitesFunc has returned
SequentialBuildReturned ==
  /\ fbpc = "seqBuild"
  /\ bsTask \in {"ok", "failed"}
  /\ IF bsTask = "failed"
     THEN fbResult' = "buildSites" /\ fbpc' = "done"
          /\ UNCHANGED << stats, statsUpdated, gcRan >>
     ELSE FinishFullBuild
  /\ UNCHANGED << cleanDestinationDir, gc, multihost, hugo, csTask, csIndex,
                  cnt, bsTask, langCount, gErr, finished,
                  notFullBuildVars >>

\* concurrent case: if err := g.Wait(); err != nil { return err }
Wait ==
  /\ fbpc = "wait"
  /\ JoinReady
  /\ IF gErr # "nil"
     THEN fbResult' = gErr /\ fbpc' = "done"
          /\ UNCHANGED << stats, statsUpdated, gcRan >>
     ELSE FinishFullBuild
  /\ UNCHANGED << cleanDestinationDir, gc, multihost, hugo, csTask, csIndex,
                  cnt, bsTask, langCount, gErr, finished,
                  notFullBuildVars >>

InitFullBuild ==
  /\ SiteIdle
  /\ TaskIdle
  /\ RssIdle
  /\ WatcherIdle
  /\ RenderIdle
  /\ PaginatorIdle
  /\ TargetPathIdle
  /\ DirListIdle
  /\ CloseIdle
  /\ cleanDestinationDir \in BOOLEAN
  /\ gc \in BOOLEAN
  /\ multihost \in BOOLEAN
  /\ hugo \in BOOLEAN
  /\ fbpc = "start"
  /\ csTask = "idle"
  /\ csIndex = 1
  /\ cnt = EmptyMap
  /\ bsTask = "idle"
  /\ langCount = EmptyMap
  /\ gErr = "nil"
  /\ finished = <<>>
  /\ stats = [l \in Langs |-> [Static |-> 0, Cleaned |-> 0]]
  /\ statsUpdated = FALSE
  /\ gcRan = "no"
  /\ fbResult = "none"

NextFullBuild ==
  \/ FullBuildBegin
  \/ CopyStaticStep
  \/ CopyStaticReturn
  \/ BuildSitesInit
  \/ BuildSitesBuild
  \/ SequentialCopyReturned
  \/ SequentialBuildReturned
  \/ Wait

SpecFullBuild == InitFullBuild /\ [][NextFullBuild]_vars

(***************************************************************************)
(* Properties of fullBuild.                                                *)
(***************************************************************************)
\* a task function has returned
Completed(task) ==
  IF task = "copyStatic" THEN csTask \in {"ok", "failed"}
  ELSE bsTask \in {"ok", "failed"}

\* a task function has returned an error
Failed(task) ==
  IF task = "copyStatic" THEN csTask = "failed" ELSE bsTask = "failed"

\* the tasks that failed, in the order they returned
FailedInOrder == SelectSeq(finished, Failed)

\* C4: with cleanDestinationDir set, buildSites is started only once
\* copyStatic has returned without error: the two never run at the same
\* time, and buildSites is never started after a failed static sync.
C4_SyncCompletesBeforeBuildBegins ==
  cleanDestinationDir =>
    /\ bsTask # "idle" => csTask = "ok"
    /\ ~(csTask = "running" /\ bsTask \in {"init", "build"})
    /\ csTask = "failed" => bsTask = "idle"

\* C4 witness: the site build is running after the static sync, which has
\* returned its counts
C4_Witness ==
  /\ cleanDestinationDir
  /\ fbpc = "seqBuild"
  /\ bsTask = "build"
  /\ csTask = "ok"
  /\ finished = << "copyStatic" >>
  /\ langCount = [l \in Langs |-> MaxCount]

\* C5: in the concurrent case fullBuild returns an error exactly when
\* copyStatic or buildSites returned one, the error is that of the task
\* that failed first, and then no statistics are updated and no GC runs.
C5_ErrorIffATaskFailed ==
  (~cleanDestinationDir /\ fbpc = "done") =>
    /\ (fbResult # "nil") <=> (FailedInOrder # <<>>)
    /\ fbResult # "nil" =>
         fbResult = Head(FailedInOrder) /\ ~statsUpdated /\ gcRan = "no"

\* C5 as amended: in the concurrent case fullBuild returns an error exactly
\* when a task returned one or the GC pass failed; when a task failed the
\* error is that of the task that failed first, no statistics are updated
\* and no GC runs; the GC pass fails only after both tasks succeeded and
\* the Static counts were merged.
C5_ErrorIffATaskOrTheGCFailed ==
  (~cleanDestinationDir /\ fbpc = "done") =>
    /\ (fbResult # "nil") <=> (FailedInOrder # <<>> \/ gcRan = "failed")
    /\ FailedInOrder # <<>> =>
         fbResult = Head(FailedInOrder) /\ ~statsUpdated /\ gcRan = "no"
    /\ gcRan = "failed" =>
         fbResult = "GC" /\ gc /\ FailedInOrder = <<>> /\ statsUpdated

\* C5 witness: both tasks failed, the site build first, and fullBuild has
\* returned the site build's error
C5_Witness ==
  /\ ~cleanDestinationDir
  /\ fbpc = "done"
  /\ finished = << "buildSites", "copyStatic" >>
  /\ csTask = "failed"
  /\ bsTask = "failed"
  /\ fbResult = "buildSites"
  /\ ~statsUpdated

\* C6: in the concurrent case the join unblocks when both tasks have
\* completed or as soon as one of them has failed.
C6_JoinUnblocksOnFirstFailure ==
  (fbpc = "wait"
     /\ ((Completed("copyStatic") /\ Completed("buildSites"))
           \/ Failed("copyStatic") \/ Failed("buildSites")))
    => ENABLED Wait

\* C6 as amended: in the concurrent case the join unblocks exactly when
\* both tasks have completed, whether or not one of them failed: after a
\* failure it still waits for the other task.
C6_JoinWaitsForBothTasks ==
  /\ fbpc = "wait" =>
       ((ENABLED Wait) <=> (Completed("copyStatic") /\ Completed("buildSites")))
  /\ (~cleanDestinationDir /\ fbpc = "done") =>
       Completed("copyStatic") /\ Completed("buildSites")

\* C6 witness: the static sync has failed, the site build is still running
\* and fullBuild is blocked in the join
C6_Witness ==
  /\ fbpc = "wait"
  /\ csTask = "failed"
  /\ gErr = "copyStatic"
  /\ bsTask = "build"
  /\ fbResult = "none"

(***************************************************************************)
(* renderPages: the pages are handed to the workers over the unbuffered    *)
(* pages channel, the workers send render errors over the unbuffered       *)
(* results channel to errorCollator.                                       *)
(***************************************************************************)
\* a page: its output formats in order, whether it names its own layout,
\* whether it is a node, and how its pageOutputInit stands when the pass
\* starts: "fresh", or run before with ("ok") or without ("failed") a
\* page output
Page(formats, selfLayout, isNode, init) ==
  [formats |-> formats, selfLayout |-> selfLayout, isNode |-> isNode,
   init |-> init]

\* a node with a feed, rendered for the first time
FeedNode == Page(<< "HTML", "RSS" >>, FALSE, TRUE, "fresh")

\* a regular page that names its own layout
SelfLayoutPage == Page(<< "HTML" >>, TRUE, FALSE, "fresh")

\* a node whose main page output an earlier pass has computed
RevisitedNode == Page(<< "HTML", "JSON" >>, FALSE, TRUE, "ok")

\* a page with no output format
NoOutputPage == Page(<< >>, FALSE, FALSE, "fresh")

\* a page whose main page output failed in an earlier pass
BrokenPage == Page(<< "HTML" >>, FALSE, FALSE, "failed")

\* the sites: their pages, repeated in this order when more are asked for
Sites ==
  { << FeedNode, SelfLayoutPage, NoOutputPage >>,
    << SelfLayoutPage, FeedNode, BrokenPage >>,
    << RevisitedNode, SelfLayoutPage, FeedNode >>,
    << NoOutputPage, RevisitedNode, SelfLayoutPage >>,
    << BrokenPage, NoOutputPage, RevisitedNode >>,
    << FeedNode, FeedNode, NoOutputPage >>,
    << SelfLayoutPage, BrokenPage, NoOutputPage >> }

\* the page lists a site may hold: the first n pages of a site
PageLists ==
  { [p \in 1..n |-> site[((p - 1) % Len(site)) + 1]] :
      site \in Sites, n \in 0..MaxPages }

\* a failure of one (page, output format) pair
Failure(p, i, kind) == [page |-> p, format |-> i, kind |-> kind]

\* a worker has dereferenced a nil page output: the process has ended
Crashed == \E w \in Workers : wpos[w] = "panic"

\* layout failures are sent to the results channel as well
IsLoggedOnlyButLayout(kind) == kind \in {"pageOutput", "targetPath"}

\* the failures pageRenderer logs before it continues with the next format
IsLoggedOnly(kind) == kind \in {"pageOutput", "layout", "targetPath"}

\* the initialiser runs for every first format, done before or not
RunsMainInitUnguarded(p, i) == i = 1

\* if i == 0 { page.pageOutputInit.Do(...) }: the sync.Once runs its
\* function only when it has not run before for this page
RunsMainInit(p, i) == i = 1 /\ ~pageOutputInit[p]

\* what one pass of the loop body over page.outputFormats can come to
FormatOutcomes(p, i) ==
  IF i = 1 /\ pageOutputInit[p] /\ mainPageOutput[p] = "nil"
  THEN {"nilDeref"}
  ELSE (IF i = 1 /\ pageOutputInit[p] THEN {} ELSE {"pageOutput"})
         \cup (IF sitePages[p].selfLayout THEN {} ELSE {"layout"})
         \cup (IF sitePages[p].formats[i] = "RSS"
               THEN {"rssOk", "renderRSS"}
               ELSE {"targetPath", "renderOk", "render"})

\* break for continue: the worker leaves the formats of the page
AdvanceToNextPage(w) ==
  /\ wpos' = [wpos EXCEPT ![w] = "recv"]
  /\ wfmt' = [wfmt EXCEPT ![w] = 0]
  /\ wpage' = [wpage EXCEPT ![w] = 0]

\* the worker goes on with the next format, or with the next page
Advance(w) ==
  IF wfmt[w] < Len(sitePages[wpage[w]].formats)
  THEN /\ wpos' = [wpos EXCEPT ![w] = "format"]
       /\ wfmt' = [wfmt EXCEPT ![w] = wfmt[w] + 1]
       /\ wpage' = wpage
  ELSE /\ wpos' = [wpos EXCEPT ![w] = "recv"]
       /\ wfmt' = [wfmt EXCEPT ![w] = 0]
       /\ wpage' = [wpage EXCEPT ![w] = 0]

\* renderPages starts the collator and the workers
RenderPagesStart ==
  /\ rpc = "start"
  /\ collator' = "range"
  /\ wpos' = [w \in Workers |-> "recv"]
  /\ rpc' = "feed"
  /\ UNCHANGED << sitePages, fed, pagesClosed, resultsClosed, wpage, wfmt,
                  wsend, pageOutputInit, mainPageOutput, mainComputed,
                  received, processed, logged, rendered, paginated, sent,
                  errMsgs, rpResult, notRenderVars >>

\* the page just sent is sent again
NextPageRepeated == IF fed > 0 THEN fed ELSE fed + 1

\* for _, page := range s.Pages: the page sent next
NextPage == fed + 1

\* pages <- page, received by worker w in for page := range pages
FeedPage(w) ==
  /\ ~Crashed
  /\ rpc = "feed"
  /\ fed < Len(sitePages)
  /\ wpos[w] = "recv"
  /\ fed' = fed + 1
  /\ received' = [received EXCEPT ![NextPage] = received[NextPage] + 1]
  /\ IF Len(sitePages[NextPage].formats) = 0
     THEN UNCHANGED << wpos, wpage, wfmt >>
     ELSE /\ wpos' = [wpos EXCEPT ![w] = "format"]
          /\ wpage' = [wpage EXCEPT ![w] = NextPage]
          /\ wfmt' = [wfmt EXCEPT ![w] = 1]
  /\ UNCHANGED << sitePages, rpc, pagesClosed, resultsClosed, wsend,
                  pageOutputInit, mainPageOutput, mainComputed, processed,
                  logged, rendered, paginated, sent, errMsgs, collator,
                  rpResult, notRenderVars >>

\* renderPages going on to wg.Wait() without close(pages)
ClosePagesOmitted ==
  /\ ~Crashed
  /\ rpc = "feed"
  /\ fed = Len(sitePages)
  /\ rpc' = "wait"
  /\ UNCHANGED << sitePages, fed, pagesClosed, resultsClosed, wpos, wpage,
                  wfmt, wsend, pageOutputInit, mainPageOutput, mainComputed,
                  received, processed, logged, rendered, paginated, sent,
                  errMsgs, collator, rpResult, notRenderVars >>

\* close(pages)
ClosePages ==
  /\ ~Crashed
  /\ rpc = "feed"
  /\ fed = Len(sitePages)
  /\ pagesClosed' = TRUE
  /\ rpc' = "wait"
  /\ UNCHANGED << sitePages, fed, resultsClosed, wpos, wpage, wfmt, wsend,
                  pageOutputInit, mainPageOutput, mainComputed, received,
                  processed, logged, rendered, paginated, sent, errMsgs,
                  collator, rpResult, notRenderVars >>

\* one pass of the loop body of pageRenderer, up to its first send on
\* results or to the paginator
ProcessFormat(w) ==
  /\ ~Crashed
  /\ wpos[w] = "format"
  /\ \E p \in {wpage[w]} : \E i \in {wfmt[w]} :
     \E o \in FormatOutcomes(p, i) :
       /\ processed' = processed \cup {<< p, i >>}
       /\ IF RunsMainInit(p, i)
          THEN /\ pageOutputInit' = [pageOutputInit EXCEPT ![p] = TRUE]
               /\ mainComputed' = [mainComputed EXCEPT ![p] = mainComputed[p] + 1]
               /\ mainPageOutput' =
                    [mainPageOutput EXCEPT
                       ![p] = IF o = "pageOutput" THEN "nil" ELSE "po"]
          ELSE UNCHANGED << pageOutputInit, mainComputed, mainPageOutput >>
       /\ logged' = IF IsLoggedOnly(o)
                    THEN logged \cup {Failure(p, i, o)} ELSE logged
       /\ rendered' = IF o \in {"rssOk", "renderOk"}
                      THEN rendered \cup {<< p, i >>} ELSE rendered
       /\ IF o = "nilDeref"
          THEN /\ wpos' = [wpos EXCEPT ![w] = "panic"]
               /\ UNCHANGED << wpage, wfmt, wsend >>
          ELSE IF IsLoggedOnly(o) \/ o = "rssOk"
          THEN Advance(w) /\ wsend' = wsend
          ELSE IF o = "renderOk"
          THEN /\ wpos' = [wpos EXCEPT ![w] = "paginator"]
               /\ UNCHANGED << wpage, wfmt, wsend >>
          ELSE /\ wpos' = [wpos EXCEPT ![w] = "send"]
               /\ wsend' = [wsend EXCEPT ![w] = Failure(p, i, o)]
               /\ UNCHANGED << wpage, wfmt >>
  /\ UNCHANGED << sitePages, rpc, fed, pagesClosed, resultsClosed, received,
                  paginated, sent, errMsgs, collator, rpResult,
                  notRenderVars >>

\* if pageOutput.IsNode() { if err := s.renderPaginator(pageOutput) ... }
RenderPaginatorStep(w) ==
  /\ ~Crashed
  /\ wpos[w] = "paginator"
  /\ IF sitePages[wpage[w]].isNode
     THEN /\ paginated' = paginated \cup {<< wpage[w], wfmt[w] >>}
          /\ \E ok \in BOOLEAN :
               IF ok THEN Advance(w) /\ wsend' = wsend
               ELSE /\ wpos' = [wpos EXCEPT ![w] = "send"]
                    /\ wsend' = [wsend EXCEPT
                                   ![w] = Failure(wpage[w], wfmt[w], "paginator")]
                    /\ UNCHANGED << wpage, wfmt >>
     ELSE Advance(w) /\ UNCHANGED << paginated, wsend >>
  /\ UNCHANGED << sitePages, rpc, fed, pagesClosed, resultsClosed,
                  pageOutputInit, mainPageOutput, mainComputed, received,
                  processed, logged, rendered, sent, errMsgs, collator,
                  rpResult, notRenderVars >>

\* results <- err, received by errorCollator in for err := range results;
\* a send on the closed channel panics
SendResult(w) ==
  /\ ~Crashed
  /\ wpos[w] = "send"
  /\ IF resultsClosed
     THEN /\ wpos' = [wpos EXCEPT ![w] = "panic"]
          /\ UNCHANGED << sent, errMsgs, wsend, wpage, wfmt >>
     ELSE /\ collator = "range"
          /\ sent' = sent \cup {wsend[w]}
          /\ errMsgs' = errMsgs \cup {wsend[w]}
          /\ wsend' = [wsend EXCEPT ![w] = NoFailure]
          /\ IF wsend[w].kind = "render"
             THEN /\ wpos' = [wpos EXCEPT ![w] = "paginator"]
                  /\ UNCHANGED << wpage, wfmt >>
             ELSE Advance(w)
  /\ UNCHANGED << sitePages, rpc, fed, pagesClosed, resultsClosed,
                  pageOutputInit, mainPageOutput, mainComputed, received,
                  processed, logged, rendered, paginated, collator, rpResult,
                  notRenderVars >>

\* the range over the closed pages channel ends: defer wg.Done()
WorkerExit(w) ==
  /\ ~Crashed
  /\ wpos[w] = "recv"
  /\ pagesClosed
  /\ wpos' = [wpos EXCEPT ![w] = "done"]
  /\ UNCHANGED << sitePages, rpc, fed, pagesClosed, resultsClosed, wpage,
                  wfmt, wsend, pageOutputInit, mainPageOutput, mainComputed,
                  received, processed, logged, rendered, paginated, sent,
                  errMsgs, collator, rpResult, notRenderVars >>

\* the barrier opens when the first worker is done
SomeWorkerDone == \E w \in Workers : wpos[w] = "done"

\* wg.Wait(): every worker has run its deferred wg.Done()
AllWorkersDone == \A w \in Workers : wpos[w] = "done"

\* wg.Wait() returns; close(results)
WaitWorkers ==
  /\ ~Crashed
  /\ rpc = "wait"
  /\ AllWorkersDone
  /\ resultsClosed' = TRUE
  /\ rpc' = "errs"
  /\ UNCHANGED << sitePages, fed, pagesClosed, wpos, wpage, wfmt, wsend,
                  pageOutputInit, mainPageOutput, mainComputed, received,
                  processed, logged, rendered, paginated, sent, errMsgs,
                  collator, rpResult, notRenderVars >>

\* errorCollator: the range over the closed results channel ends
CollatorFinish ==
  /\ ~Crashed
  /\ collator = "range"
  /\ resultsClosed
  /\ collator' = "send"
  /\ UNCHANGED << sitePages, rpc, fed, pagesClosed, resultsClosed, wpos,
                  wpage, wfmt, wsend, pageOutputInit, mainPageOutput,
                  mainComputed, received, processed, logged, rendered,
                  paginated, sent, errMsgs, rpResult, notRenderVars >>

\* err := <-errs: nil when the collator received no error
ReceiveErrs ==
  /\ ~Crashed
  /\ rpc = "errs"
  /\ collator = "send"
  /\ rpResult' = IF errMsgs = {} THEN "nil" ELSE "error"
  /\ collator' = "done"
  /\ rpc' = "done"
  /\ UNCHANGED << sitePages, fed, pagesClosed, resultsClosed, wpos, wpage,
                  wfmt, wsend, pageOutputInit, mainPageOutput, mainComputed,
                  received, processed, logged, rendered, paginated, sent,
                  errMsgs, notRenderVars >>

InitRender ==
  /\ SiteIdle
  /\ TaskIdle
  /\ RssIdle
  /\ WatcherIdle
  /\ FullBuildIdle
  /\ PaginatorIdle
  /\ TargetPathIdle
  /\ DirListIdle
  /\ CloseIdle
  /\ sitePages \in PageLists
  /\ rpc = "start"
  /\ fed = 0
  /\ pagesClosed = FALSE
  /\ resultsClosed = FALSE
  /\ wpos = [w \in Workers |-> "none"]
  /\ wpage = [w \in Workers |-> 0]
  /\ wfmt = [w \in Workers |-> 0]
  /\ wsend = [w \in Workers |-> NoFailure]
  /\ pageOutputInit = [p \in 1..Len(sitePages) |-> sitePages[p].init # "fresh"]
  /\ mainPageOutput =
       [p \in 1..Len(sitePages) |->
          IF sitePages[p].init = "ok" THEN "po" ELSE "nil"]
  /\ mainComputed = [p \in 1..Len(sitePages) |-> 0]
  /\ received = [p \in 1..Len(sitePages) |-> 0]
  /\ processed = {}
  /\ logged = {}
  /\ rendered = {}
  /\ paginated = {}
  /\ sent = {}
  /\ errMsgs = {}
  /\ collator = "none"
  /\ rpResult = "none"

NextRender ==
  \/ RenderPagesStart
  \/ \E w \in Workers : FeedPage(w)
  \/ ClosePages
  \/ \E w \in Workers : ProcessFormat(w)
  \/ \E w \in Workers : RenderPaginatorStep(w)
  \/ \E w \in Workers : SendResult(w)
  \/ \E w \in Workers : WorkerExit(w)
  \/ WaitWorkers
  \/ CollatorFinish
  \/ ReceiveErrs

SpecRender == InitRender /\ [][NextRender]_vars

(***************************************************************************)
(* Properties of renderPages.                                              *)
(***************************************************************************)
\* the kinds of the failures in a set
Kinds(failures) == {f.kind : f \in failures}

\* C10: renderPages returns an error exactly when some (page, format) pair
\* failed in the pass, be it in page-output creation, layout resolution,
\* target-path computation or rendering and writing.
C10_AnyFailureIsReturned ==
  rpc = "done" => ((rpResult = "error") <=> (logged \cup sent # {}))

\* C10 as amended: renderPages returns an error exactly when, for some
\* (page, format) pair, renderRSS, renderAndWritePage or renderPaginator
\* returned an error; failures of page-output creation, layout resolution
\* and target-path computation are logged only and leave the result nil.
C10_OnlyRenderFailuresAreReturned ==
  rpc = "done" =>
    /\ (rpResult = "error")
         <=> (Kinds(sent) \cap {"renderRSS", "render", "paginator"} # {})
    /\ (rpResult = "nil")
         <=> (Kinds(sent) \cap {"renderRSS", "render", "paginator"} = {})
    /\ Kinds(logged) \subseteq {"pageOutput", "layout", "targetPath"}
    /\ errMsgs = sent

\* C10 witness: a pass in which page-output creation, layout resolution and
\* target-path computation each failed for some pair has returned nil
C10_Witness ==
  /\ rpc = "done"
  /\ Kinds(logged) = {"pageOutput", "layout", "targetPath"}
  /\ sent = {}
  /\ rpResult = "nil"

\* the computations of the main page output of page p, the one of an
\* earlier pass or stage included
MainComputations(p) ==
  mainComputed[p] + (IF sitePages[p].init = "fresh" THEN 0 ELSE 1)

\* C11: the main page output of a page is computed at most once, it has
\* been computed exactly once as soon as the page's initialiser has run,
\* and once renderPages has returned it has been computed exactly once for
\* every page with at least one output format.
C11_MainOutputComputedOnce ==
  \A p \in 1..Len(sitePages) :
    /\ MainComputations(p) <= 1
    /\ pageOutputInit[p] <=> (MainComputations(p) = 1)
    /\ (rpc = "done" /\ Len(sitePages[p].formats) >= 1)
         => MainComputations(p) = 1

\* C11 witness: a pass has rendered a node whose main page output an
\* earlier pass had computed, without computing it again, and a fresh page,
\* computing its main page output once
C11_Witness ==
  /\ rpc = "done"
  /\ sitePages = << RevisitedNode, SelfLayoutPage >>
  /\ mainComputed = << 0, 1 >>
  /\ processed = { << 1, 1 >>, << 1, 2 >>, << 2, 1 >> }

\* the (page, output format) pairs of the site
Pairs ==
  UNION { { << p, i >> : i \in 1..Len(sitePages[p].formats) } :
            p \in 1..Len(sitePages) }

\* the pages sent so far have each been received once and are held by at
\* most one worker; after the return all pairs have been processed
PagesReceivedOnce ==
  /\ \A p \in 1..Len(sitePages) :
       /\ received[p] = (IF p <= fed THEN 1 ELSE 0)
       /\ Cardinality({w \in Workers : wpage[w] = p}) <= 1
  /\ processed \subseteq Pairs
  /\ rpc = "done" => (fed = Len(sitePages) /\ processed = Pairs)

\* a loop body starts on a pair that was not processed before
ProcessesNewPair ==
  \A w \in Workers :
    (wpos[w] = "format" /\ (wpos'[w] # "format" \/ wfmt'[w] # wfmt[w]))
      => /\ << wpage[w], wfmt[w] >> \notin processed
         /\ processed' = processed \cup {<< wpage[w], wfmt[w] >>}

\* C12: every page is received by at most one worker, no two workers hold
\* the same page, the pages sent so far have each been received once, a
\* loop body always starts on a pair that was not processed before, and
\* once renderPages has returned every page has been received exactly once
\* and every (page, format) pair has been processed.
C12_EveryPairProcessedOnce ==
  []PagesReceivedOnce /\ [][ProcessesNewPair]_vars

\* C12 witness: two workers have shared the two pages of a site, each page
\* went to one of them, and all three pairs have been processed
C12_Witness ==
  /\ rpc = "done"
  /\ sitePages = << FeedNode, SelfLayoutPage >>
  /\ received = << 1, 1 >>
  /\ processed = { << 1, 1 >>, << 1, 2 >>, << 2, 1 >> }
  /\ rendered = processed

\* C13: renderPages has its result only after the results channel was
\* closed, the channel is closed only after every worker has finished (so
\* no worker sends on it afterwards), the collator holds every error sent,
\* and the result is an error exactly when some error was sent.
C13_AggregateReadAfterWorkers ==
  /\ errMsgs = sent
  /\ resultsClosed => \A w \in Workers : wpos[w] = "done"
  /\ rpc # "done" => rpResult = "none"
  /\ rpc = "done" =>
       /\ resultsClosed
       /\ collator = "done"
       /\ (rpResult = "error") <=> (sent # {})
       /\ (rpResult = "nil") <=> (sent = {})

\* C13 witness: errors of both pages, two of them of the same pair, were
\* sent and renderPages has returned the aggregate error
C13_Witness ==
  /\ rpc = "done"
  /\ rpResult = "error"
  /\ { Failure(1, 1, "render"), Failure(1, 1, "paginator"),
       Failure(2, 1, "render") } \subseteq sent
  /\ errMsgs = sent

(***************************************************************************)
(* renderPaginator: the alias of page 1, then one artifact per pager       *)
(* after the first.                                                        *)
(***************************************************************************)
\* strconv of a non-negative integer, as the %d verb prints it
RECURSIVE Decimal(_)
Decimal(n) ==
  LET digit == << "0", "1", "2", "3", "4", "5", "6", "7", "8", "9" >>[(n % 10) + 1]
  IN  IF n < 10 THEN << digit >> ELSE Decimal(n \div 10) \o << digit >>

\* fmt.Sprintf("/%s/%d", paginatePath, pageNumber)
Addend(pageNumber) ==
  << "/" >> \o paginatePath \o << "/" >> \o Decimal(pageNumber)

\* the values of s.Cfg.GetString("paginatePath")
PaginatePaths == { << "p" >>, << "p", "a", "g", "e" >> }

\* the alias written by s.writeDestAlias(target, link, nil)
AliasWrite(target) == [kind |-> "alias", at |-> target, to |-> "permalink"]

\* the artifact written by s.renderAndWritePage(..., targetPath, pagerNode, ...)
PagerWrite(number, targetPath) ==
  [kind |-> "pager", number |-> number, at |-> targetPath]

\* no pager is skipped
SkipsNoPager(i) == FALSE

\* if i == 0 { continue }: already created
SkipsPager(i) == i = 0

\* renderPaginator returns
PaginatorReturns(result) ==
  /\ pgResult' = result
  /\ pgpc' = "done"

\* lines 137-152: nothing to do without a paginator; else the alias for
\* page 1 is written at the target path with addend /paginatePath/1
RenderPaginatorBegin ==
  /\ pgpc = "start"
  /\ IF paginator = 0
     THEN PaginatorReturns("nil") /\ UNCHANGED << pgTarget, pgWrites >>
     ELSE \E targetOk \in BOOLEAN : \E aliasOk \in Outcome(targetOk) :
            /\ pgTarget' = IF targetOk THEN Addend(1) ELSE <<>>
            /\ IF targetOk /\ aliasOk
               THEN /\ pgWrites' = Append(pgWrites, AliasWrite(Addend(1)))
                    /\ pgpc' = "pager"
                    /\ pgResult' = pgResult
               ELSE PaginatorReturns("error") /\ pgWrites' = pgWrites
  /\ UNCHANGED << paginator, paginatePath, pgI, notPaginatorVars >>

\* lines 156-185: one iteration of the loop over the pagers; the error of
\* p.targetPath(addend) is dropped and the path is then empty
RenderPager ==
  /\ pgpc = "pager"
  /\ pgI < paginator
  /\ IF SkipsPager(pgI)
     THEN pgI' = pgI + 1 /\ UNCHANGED << pgpc, pgWrites, pgResult >>
     ELSE \E pathOk \in BOOLEAN : \E layoutsOk \in BOOLEAN :
          \E renderOk \in Outcome(layoutsOk) :
            IF layoutsOk /\ renderOk
            THEN /\ pgWrites' =
                      Append(pgWrites,
                             PagerWrite(pgI + 1,
                                        IF pathOk THEN Addend(pgI + 1) ELSE <<>>))
                 /\ pgI' = pgI + 1
                 /\ UNCHANGED << pgpc, pgResult >>
            ELSE PaginatorReturns("error") /\ UNCHANGED << pgI, pgWrites >>
  /\ UNCHANGED << paginator, paginatePath, pgTarget, notPaginatorVars >>

\* lines 186-188: the loop is over, return nil
RenderPaginatorReturn ==
  /\ pgpc = "pager"
  /\ pgI >= paginator
  /\ PaginatorReturns("nil")
  /\ UNCHANGED << paginator, paginatePath, pgI, pgTarget, pgWrites,
                  notPaginatorVars >>

InitPaginator ==
  /\ SiteIdle
  /\ TaskIdle
  /\ RssIdle
  /\ WatcherIdle
  /\ FullBuildIdle
  /\ RenderIdle
  /\ TargetPathIdle
  /\ DirListIdle
  /\ CloseIdle
  /\ paginator \in 0..MaxPagers
  /\ paginatePath \in PaginatePaths
  /\ pgpc = "start"
  /\ pgI = 0
  /\ pgTarget = <<>>
  /\ pgWrites = <<>>
  /\ pgResult = "none"

NextPaginator ==
  \/ RenderPaginatorBegin
  \/ RenderPager
  \/ RenderPaginatorReturn

SpecPaginator == InitPaginator /\ [][NextPaginator]_vars

(***************************************************************************)
(* Properties of renderPaginator.                                          *)
(***************************************************************************)
\* the pager artifacts written, in order
PagerWrites == SelectSeq(pgWrites, LAMBDA w : w.kind = "pager")

\* the aliases written, in order
AliasWrites == SelectSeq(pgWrites, LAMBDA w : w.kind = "alias")

\* the alias of page 1 is the first thing written and the only alias
AliasWrittenFirst ==
  /\ Len(pgWrites) >= 1
  /\ pgWrites[1] = AliasWrite(Addend(1))
  /\ Len(AliasWrites) = 1

\* C14: whenever renderPaginator has run for a page output with a
\* paginator, the alias from <paginatePath>/1 to the permalink has been
\* written, before any pager, and pager 1 has not been rendered again.
C14_AliasAlwaysWritten ==
  /\ (pgpc = "done" /\ paginator > 0) => AliasWrittenFirst
  /\ PagerWrites # <<>> => AliasWrittenFirst
  /\ \A k \in 1..Len(PagerWrites) : PagerWrites[k].number # 1

\* C14 as amended: the alias is written first unless computing its target
\* path or writing it fails; in that case renderPaginator returns the error
\* and has written nothing. Pagers are rendered only after the alias, and
\* pager 1 is never rendered again.
C14_AliasWrittenUnlessItFails ==
  /\ (pgpc = "done" /\ paginator > 0) =>
       \/ AliasWrittenFirst
       \/ pgResult = "error" /\ pgWrites = <<>> /\ pgI = 0
  /\ (pgResult = "nil" /\ paginator > 0) => AliasWrittenFirst
  /\ PagerWrites # <<>> => AliasWrittenFirst
  /\ \A k \in 1..Len(PagerWrites) : PagerWrites[k].number # 1
  /\ paginator = 0 => pgWrites = <<>>

\* C14 witness: renderPaginator has returned nil after it wrote the alias
\* and then two pagers
C14_Witness ==
  /\ pgpc = "done"
  /\ pgResult = "nil"
  /\ paginator = 3
  /\ paginatePath = << "p", "a", "g", "e" >>
  /\ pgWrites = << AliasWrite(<< "/", "p", "a", "g", "e", "/", "1" >>),
                   PagerWrite(2, << "/", "p", "a", "g", "e", "/", "2" >>),
                   PagerWrite(3, << "/", "p", "a", "g", "e", "/", "3" >>) >>

\* C15: without an error the pagers 2..N are rendered in ascending order,
\* each at the target path with addend /<paginatePath>/<n>; when page n
\* fails, the error is returned and exactly the pages 2..n-1 were rendered.
C15_PagersRenderedAtDerivedPaths ==
  (pgpc = "done" /\ paginator > 0) =>
    /\ pgResult = "nil" =>
         PagerWrites = [k \in 1..(paginator - 1) |->
                          PagerWrite(k + 1, Addend(k + 1))]
    /\ (pgResult = "error" /\ AliasWrites # <<>>) =>
         PagerWrites = [k \in 1..(pgI - 1) |->
                          PagerWrite(k + 1, Addend(k + 1))]

(***************************************************************************)
(* Page.TargetPath.                                                        *)
(***************************************************************************)
\* the characters strings.TrimSpace removes
WhiteSpace == { " ", "\t", "\n", "\r" }

RECURSIVE TrimLeft(_)
TrimLeft(str) ==
  IF str # <<>> /\ Head(str) \in WhiteSpace THEN TrimLeft(Tail(str)) ELSE str

RECURSIVE TrimRight(_)
TrimRight(str) ==
  IF str # <<>> /\ str[Len(str)] \in WhiteSpace
  THEN TrimRight(SubSeq(str, 1, Len(str) - 1))
  ELSE str

\* strings.TrimSpace
TrimSpace(str) == TrimRight(TrimLeft(str))

\* replaceExtension: the name with its extension replaced by newExt
ReplaceExtension(name, newExt) ==
  SubSeq(name, 1, Len(name) - Len(Ext(name))) \o << "." >> \o newExt

IndexHTML == << "i", "n", "d", "e", "x", ".", "h", "t", "m", "l" >>

\* a result ending in a slash is returned as it is
WithoutIndex(outfile) == outfile

\* if strings.HasSuffix(outfile, "/") { outfile = outfile + "index.html" }
WithIndex(outfile) ==
  IF HasSuffix(outfile, << "/" >>) THEN outfile \o IndexHTML ELSE outfile

\* if len(strings.TrimSpace(p.Url)) > 2
UsesUrl(url) == Len(TrimSpace(url)) > 2

\* TargetPath: the path returned and the source it was taken from
TargetPath(p) ==
  IF UsesUrl(p.Url)
  THEN [outfile |-> WithIndex(TrimSpace(p.Url)), source |-> "url"]
  ELSE IF p.Permalink.present /\ ~p.Permalink.err
  THEN [outfile |-> WithIndex(p.Permalink.out), source |-> "permalink"]
  ELSE IF Len(TrimSpace(p.Slug)) > 0
  THEN [outfile |-> Join(p.Dir, TrimSpace(TrimSpace(p.Slug) \o << "." >>
                                            \o p.Extension)),
        source |-> "slug"]
  ELSE [outfile |-> Join(p.Dir,
                         TrimSpace(ReplaceExtension(TrimSpace(Split(p.FileName).file),
                                                    p.Extension))),
        source |-> "file"]

\* the values of p.Url
Urls ==
  { << >>, << " " >>, << "/" >>, << "/", "a" >>, << "/", "a", "/" >>,
    << "/", "a", "b" >>, << " ", "/", "a", "b", "/", " " >> }

\* p.Site.Permalinks[p.Section] and what override.Expand(p) returns
Override(present, err, out) == [present |-> present, err |-> err, out |-> out]

Permalinks ==
  { Override(FALSE, FALSE, << >>),
    Override(TRUE, TRUE, << >>),
    Override(TRUE, FALSE, << "/", "p", "/", "t", "/" >>),
    Override(TRUE, FALSE, << "/", "p", "/", "t" >>) }

\* the values of p.Slug
Slugs == { << >>, << " " >>, << "s" >>, << " ", "s", " " >> }

\* the values of p.FileName
FileNames ==
  { << "c", "/", "f", ".", "m", "d" >>, << "f", ".", "m", "d" >>, << "f" >> }

\* the values of p.Dir
Dirs == { << >>, << "c" >>, << "c", "/" >> }

\* File{FileName: filename, Extension: "html"}
Extensions == { << "h", "t", "m", "l" >> }

\* outfile is computed and returned
CallTargetPath ==
  /\ tpOut = NoResult
  /\ tpOut' = TargetPath(tpPage)
  /\ UNCHANGED << tpPage, notTargetPathVars >>

InitTargetPath ==
  /\ SiteIdle
  /\ TaskIdle
  /\ RssIdle
  /\ WatcherIdle
  /\ FullBuildIdle
  /\ RenderIdle
  /\ PaginatorIdle
  /\ DirListIdle
  /\ CloseIdle
  /\ tpPage \in [Url : Urls, Permalink : Permalinks, Slug : Slugs,
                 FileName : FileNames, Dir : Dirs, Extension : Extensions]
  /\ tpOut = NoResult

NextTargetPath == CallTargetPath

SpecTargetPath == InitTargetPath /\ [][NextTargetPath]_vars

(***************************************************************************)
(* Properties of Page.TargetPath.                                          *)
(***************************************************************************)
\* the highest source the page has a value for: a URL, a permalink
\* override for its section, a slug, and at last the file name
HighestSourcePresent ==
  IF TrimSpace(tpPage.Url) # <<>> THEN "url"
  ELSE IF tpPage.Permalink.present THEN "permalink"
  ELSE IF TrimSpace(tpPage.Slug) # <<>> THEN "slug"
  ELSE "file"

\* C16: TargetPath takes its result from the URL override whenever one is
\* set, else from the permalink override of the section when there is one,
\* else from the slug when there is one, else from the file name.
C16_PrecedenceByPresence ==
  tpOut # NoResult => tpOut.source = HighestSourcePresent

\* C17: TargetPath never returns a path ending in a slash: a URL override
\* or expanded permalink ending in one is returned with index.html
\* appended.
C17_NeverEndsInSlash ==
  tpOut # NoResult =>
    /\ ~HasSuffix(tpOut.outfile, << "/" >>)
    /\ (tpOut.source = "url" /\ HasSuffix(TrimSpace(tpPage.Url), << "/" >>))
         => tpOut.outfile = TrimSpace(tpPage.Url) \o IndexHTML
    /\ (tpOut.source = "permalink" /\ HasSuffix(tpPage.Permalink.out, << "/" >>))
         => tpOut.outfile = tpPage.Permalink.out \o IndexHTML

\* C17 witness: the URL override " /ab/ " has been returned as
\* /ab/index.html
C17_Witness ==
  /\ tpOut # NoResult
  /\ tpPage.Url = << " ", "/", "a", "b", "/", " " >>
  /\ tpOut.source = "url"
  /\ tpOut.outfile = << "/", "a", "b", "/" >> \o IndexHTML

(***************************************************************************)
(* getDirList (hugo.go:649-786), the watcher.Add calls of newWatcher       *)
(* (883-894) and the recursive add after a directory Create event          *)
(* (993-1014): the watch set.                                              *)
(***************************************************************************)
\* the number of directories created while watching
MaxCreated == 2

DotGit == <<".", "g", "i", "t">>
NodeModules == <<"n", "o", "d", "e", "_", "m", "o", "d", "u", "l", "e", "s">>
BowerComponents ==
  <<"b", "o", "w", "e", "r", "_", "c", "o", "m", "p", "o", "n", "e", "n", "t", "s">>

\* the names the second test of the walker skips (hugo.go:731-732)
SkippedNames == {DotGit, NodeModules, BowerComponents}

\* an entry of the source file system; kind is "dir", "file", "symdir" (a
\* symbolic link to a directory) or "symfile" (a symbolic link to a file)
Node(path, kind) == [path |-> path, kind |-> kind, target |-> <<>>]
Dir(path) == Node(path, "dir")
File(path) == Node(path, "file")

\* the configured directories, and the layouts, i18n and data directories
\* of the theme
DirPaths ==
  [ dataDir    |-> <<"d">>,
    i18nDir    |-> <<"i">>,
    layoutDir  |-> <<"l">>,
    contentDir |-> <<"c">>,
    staticDir  |-> <<"s">>,
    themeLayouts |-> Join(<<"t">>, <<"l", "a", "y", "o", "u", "t", "s">>),
    themeI18n    |-> Join(<<"t">>, <<"i", "1", "8", "n">>),
    themeData    |-> Join(<<"t">>, <<"d", "a", "t", "a">>),
    posts      |-> Join(<<"c">>, <<"p">>),
    link       |-> Join(<<"c">>, <<"q">>) ]

\* the roots getDirList walks, in order, each with the walker it uses
\* (hugo.go:744-763)
WalkRoots(theme) ==
  << [root |-> DirPaths.dataDir, allowSymbolicDirs |-> FALSE],
     [root |-> DirPaths.i18nDir, allowSymbolicDirs |-> FALSE],
     [root |-> DirPaths.layoutDir, allowSymbolicDirs |-> FALSE],
     [root |-> DirPaths.contentDir, allowSymbolicDirs |-> TRUE],
     [root |-> DirPaths.staticDir, allowSymbolicDirs |-> FALSE] >>
  \o (IF theme
      THEN << [root |-> DirPaths.themeLayouts, allowSymbolicDirs |-> FALSE],
              [root |-> DirPaths.themeI18n, allowSymbolicDirs |-> FALSE],
              [root |-> DirPaths.themeData, allowSymbolicDirs |-> FALSE] >>
      ELSE <<>>)

\* a site without directories to skip: i18n is missing
BaseTree ==
  { Dir(DirPaths.dataDir), Dir(DirPaths.layoutDir), Dir(DirPaths.contentDir),
    Dir(DirPaths.staticDir), Dir(DirPaths.posts),
    File(Join(DirPaths.posts, <<"a">>)) }

\* a symbolic link to the directory target of the same tree
Link(path, target) == [path |-> path, kind |-> "symdir", target |-> target]

\* the number of symbolic links filepath.EvalSymlinks walks before it
\* gives up with an error (255 in the Go library)
MaxLinksWalked == 3

\* the linked directory c/q holds a link back to itself
SelfLinkTree ==
  BaseTree \cup { Node(DirPaths.link, "symdir"),
                  Dir(Join(DirPaths.link, <<"k">>)),
                  Link(Join(DirPaths.link, <<"b">>), DirPaths.link) }

\* the linked directory c/q holds a link to the content directory above it
AncestorLinkTree ==
  BaseTree \cup { Node(DirPaths.link, "symdir"),
                  Link(Join(DirPaths.link, <<"u">>), DirPaths.contentDir) }

\* the source trees a run starts from
Trees ==
  { SelfLinkTree, AncestorLinkTree,
    \* nothing to skip
    BaseTree \cup { Dir(Join(DirPaths.staticDir, <<"k">>)) },
    \* a repository inside the content directory
    BaseTree \cup { Dir(Join(DirPaths.contentDir, DotGit)),
                    Dir(Join(Join(DirPaths.contentDir, DotGit), <<"o">>)),
                    Dir(Join(Join(Join(DirPaths.contentDir, DotGit), <<"o">>),
                             <<"k">>)) },
    \* package directories below static and layouts
    BaseTree \cup { Dir(Join(DirPaths.staticDir, NodeModules)),
                    Dir(Join(Join(DirPaths.staticDir, NodeModules), <<"k">>)),
                    Dir(Join(DirPaths.layoutDir, BowerComponents)),
                    Dir(Join(Join(DirPaths.layoutDir, BowerComponents), <<"k">>)) },
    \* a package directory further down, and symbolic links
    BaseTree \cup { Dir(Join(DirPaths.posts, NodeModules)),
                    Dir(Join(Join(DirPaths.posts, NodeModules), <<"k">>)),
                    Node(DirPaths.link, "symdir"),
                    Dir(Join(DirPaths.link, <<"k">>)),
                    Dir(Join(DirPaths.link, NodeModules)),
                    Dir(Join(Join(DirPaths.link, NodeModules), <<"k">>)),
                    Node(Join(DirPaths.contentDir, <<"f">>), "symfile"),
                    Node(Join(DirPaths.staticDir, <<"q">>), "symdir"),
                    Dir(Join(Join(DirPaths.staticDir, <<"q">>), <<"k">>)) },
    \* a theme with its own repository
    BaseTree \cup { Dir(DirPaths.themeLayouts),
                    Dir(Join(DirPaths.themeLayouts, <<"k">>)),
                    Dir(Join(DirPaths.themeLayouts, DotGit)),
                    Dir(Join(Join(DirPaths.themeLayouts, DotGit), <<"o">>)),
                    Dir(DirPaths.themeData) },
    \* a .git file (submodule), and a link inside a linked directory
    BaseTree \cup { File(Join(DirPaths.posts, DotGit)),
                    Node(DirPaths.link, "symdir"),
                    Node(Join(DirPaths.link, <<"r">>), "symdir"),
                    Dir(Join(Join(DirPaths.link, <<"r">>), <<"k">>)) } }

\* the directories created while hugo watches: the created directory and
\* what it holds when the Create event is handled (mkdir -p, a checkout)
Creations ==
  { [root  |-> Join(DirPaths.contentDir, <<"n">>),
     nodes |-> { Dir(Join(DirPaths.contentDir, <<"n">>)),
                 File(Join(Join(DirPaths.contentDir, <<"n">>), <<"a">>)),
                 Dir(Join(Join(DirPaths.contentDir, <<"n">>), NodeModules)),
                 Dir(Join(Join(Join(DirPaths.contentDir, <<"n">>), NodeModules),
                          <<"k">>)) }],
    [root  |-> Join(DirPaths.contentDir, NodeModules),
     nodes |-> { Dir(Join(DirPaths.contentDir, NodeModules)),
                 Dir(Join(Join(DirPaths.contentDir, NodeModules), <<"k">>)) }],
    [root  |-> Join(DirPaths.staticDir, DotGit),
     nodes |-> { Dir(Join(DirPaths.staticDir, DotGit)),
                 Dir(Join(Join(DirPaths.staticDir, DotGit), <<"o">>)) }],
    [root  |-> Join(DirPaths.posts, <<"m">>),
     nodes |-> { Dir(Join(DirPaths.posts, <<"m">>)) }],
    [root  |-> Join(DirPaths.posts, <<"m", ".", "t", "m", "p">>),
     nodes |-> { Dir(Join(DirPaths.posts, <<"m", ".", "t", "m", "p">>)) }],
    [root  |-> Join(Join(DirPaths.contentDir, DotGit), <<"z">>),
     nodes |-> { Dir(Join(Join(DirPaths.contentDir, DotGit), <<"z">>)) }] }

\* the characters of the paths, in byte order
Alphabet ==
  << ".", "/", "0", "1", "2", "3", "4", "5", "6", "7", "8", "9", "_",
     "a", "b", "c", "d", "e", "f", "g", "h", "i", "j", "k", "l", "m",
     "n", "o", "p", "q", "r", "s", "t", "u", "v", "w", "x", "y", "z" >>

\* the rank of a character: its byte order for sort.Strings; for the order
\* in which Walk visits entries the separator ranks below every character
Rank(ch, byName) ==
  IF byName /\ ch = "/" THEN 0
  ELSE CHOOSE i \in 1..Len(Alphabet) : Alphabet[i] = ch

\* p sorts before q
Before(p, q, byName) ==
  \E i \in 1..Len(q) :
    /\ i - 1 <= Len(p)
    /\ SubSeq(p, 1, i - 1) = SubSeq(q, 1, i - 1)
    /\ (i > Len(p) \/ Rank(p[i], byName) < Rank(q[i], byName))

\* the paths of a set in ascending order
RECURSIVE Sorted(_, _)
Sorted(paths, byName) ==
  IF paths = {} THEN <<>>
  ELSE CHOOSE result \in
         { << first >> \o Sorted(rest, byName) :
             << first, rest >> \in
               { << p, paths \ {p} >> :
                   p \in { x \in paths :
                             \A q \in paths \ {x} : Before(x, q, byName) } } } :
         TRUE

\* the symbolic links of nodes on the way to path, path included
LinksOnPath(nodes, path) ==
  { l \in nodes : /\ l.kind \in {"symdir", "symerr"}
                  /\ (l.path = path \/ HasPrefix(path, l.path \o <<"/">>)) }

\* what the entries below the targets of the links of view look like when
\* they are reached through the links: the same entries with the link's
\* path for the target's. A link that takes more than MaxLinksWalked links
\* to resolve is one that EvalSymlinks cannot read, and nothing is below it
Through(view) ==
  LET raw == { [path |-> l.path \o SubSeq(n.path, Len(l.target) + 1, Len(n.path)),
                kind |-> n.kind, target |-> n.target] :
                 << l, n >> \in { x \in view \X view :
                                    /\ x[1].kind = "symdir"
                                    /\ x[1].target # <<>>
                                    /\ HasPrefix(x[2].path, x[1].target \o <<"/">>) } }
      all == view \cup raw
      unreadable == { n.path : n \in { m \in all :
                        /\ m.kind \in {"symdir", "symerr"}
                        /\ Cardinality({ l.path : l \in LinksOnPath(all, m.path) })
                             > MaxLinksWalked } }
  IN  { [path |-> n.path,
         kind |-> IF n.path \in unreadable THEN "symerr" ELSE n.kind,
         target |-> n.target] :
          n \in { m \in all : ~\E u \in unreadable :
                                  HasPrefix(m.path, u \o <<"/">>) } }

\* the entries of the file system as Lstat and ReadDir show them: the tree
\* with the directories behind its links
RECURSIVE Visible(_)
Visible(view) ==
  IF Through(view) = view THEN view ELSE Visible(Through(view))

\* the source trees as the walks see them
VisibleTrees == { Visible(tree) : tree \in Trees }

\* the entries of tree at and below root
Under(tree, root) ==
  {n \in tree : n.path = root \/ HasPrefix(n.path, root \o <<"/">>)}

\* the entries at and below root in the order Walk reaches them: each
\* directory's entries by name
WalkOrder(tree, root) ==
  LET order == Sorted({n.path : n \in Under(tree, root)}, TRUE)
  IN  [i \in 1..Len(order) |-> CHOOSE n \in tree : n.path = order[i]]

\* path lies below one of the entries in pruned
BelowAny(path, pruned) ==
  \E p \in pruned : HasPrefix(path, p \o <<"/">>)

\* the function newWalker(allowSymbolicDirs) returns, for an entry that
\* exists: what it returns to Walk, whether it appends the path to a, and
\* whether it notes the path as a nested symbolic directory
Walker(allowSymbolicDirs, node) ==
  IF Base(node.path) = DotGit
  THEN [ret |-> "nil", add |-> FALSE, nest |-> FALSE]
  ELSE IF node.kind = "symdir"
  THEN [ret |-> "nil", add |-> FALSE, nest |-> allowSymbolicDirs]
  ELSE IF node.kind = "dir"
  THEN IF Base(node.path) \in SkippedNames
       THEN [ret |-> "SkipDir", add |-> FALSE, nest |-> FALSE]
       ELSE [ret |-> "nil", add |-> TRUE, nest |-> FALSE]
  ELSE [ret |-> "nil", add |-> FALSE, nest |-> FALSE]

\* Walk reaches one entry: an entry below a pruned one is not reached; a
\* directory for which the walker returns SkipDir is pruned, and Walk
\* does not descend into files and symbolic links. The root of the walk
\* is resolved, so a linked root counts as the directory it points to.
WalkEntry(entry, root, allowSymbolicDirs, pruned, acc) ==
  IF BelowAny(entry.path, pruned)
  THEN [pruned |-> pruned, acc |-> acc]
  ELSE LET node == IF entry.path = root /\ entry.kind = "symdir"
                   THEN Dir(root) ELSE entry
           w == Walker(allowSymbolicDirs, node)
           isNew == w.nest /\ node.path \notin acc.seen
       IN  [pruned |-> IF node.kind # "dir" \/ w.ret = "SkipDir"
                       THEN pruned \cup {node.path} ELSE pruned,
            acc |-> [a      |-> IF w.add THEN Append(acc.a, node.path)
                                ELSE acc.a,
                     nested |-> IF isNew THEN Append(acc.nested, node.path)
                                ELSE acc.nested,
                     seen   |-> IF isNew THEN acc.seen \cup {node.path}
                                ELSE acc.seen]]

\* Walk over entries[i..], one entry after the other
RECURSIVE WalkEntries(_, _, _, _, _, _)
WalkEntries(entries, i, root, allowSymbolicDirs, pruned, acc) ==
  IF i > Len(entries) THEN acc
  ELSE CHOOSE result \in
         { WalkEntries(entries, i + 1, root, allowSymbolicDirs,
                       step.pruned, step.acc) :
             step \in { WalkEntry(entries[i], root, allowSymbolicDirs,
                                  pruned, acc) } } : TRUE

\* helpers.SymbolicWalk(fs, root, walker) in getDirList: a root that does
\* not exist reaches the walker as an error, which it ignores
WalkTree(tree, root, allowSymbolicDirs, acc) ==
  IF \A n \in tree : n.path # root THEN acc
  ELSE CHOOSE result \in
         { WalkEntries(entries, 1, root, allowSymbolicDirs, {}, start) :
             entries \in { WalkOrder(tree, root) }, start \in { acc } } : TRUE

\* the loop body of hugo.go:771-773 over toWalk[i..]
RECURSIVE WalkAll(_, _, _, _)
WalkAll(tree, toWalk, i, acc) ==
  IF i > Len(toWalk) THEN acc
  ELSE WalkAll(tree, toWalk, i + 1, WalkTree(tree, toWalk[i], TRUE, acc))

\* what SymbolicWalk hands to walkAdder for a created directory: every
\* entry at and below it, links not followed
CreatedEntries(tree, root) ==
  LET order == WalkOrder(tree, root)
      reached == SelectSeq(order, LAMBDA n :
                   ~BelowAny(n.path, {m.path : m \in {x \in Under(tree, root) :
                                                       x.kind # "dir"}}))
  IN  [i \in 1..Len(reached) |->
         [path |-> reached[i].path, isDir |-> reached[i].kind = "dir"]]

\* filepath.Dir of a path with a parent
ParentDir(path) == SubSeq(path, 1, LastSeparator(path) - 1)

\* getDirList is called; newStaticSyncer may fail (hugo.go:659-662)
GetDirListBegin ==
  /\ dlpc = "start"
  /\ \E syncerOk \in BOOLEAN :
       /\ dlpc' = IF syncerOk THEN "walking" ELSE "failed"
       /\ dlRoot' = IF syncerOk THEN 1 ELSE 0
  /\ UNCHANGED << fsTree, themeSet, dlA, nested, seen, watchDirs, watchSet,
                  created, notDirListVars >>

\* one SymbolicWalk call of hugo.go:748-763
WalkRoot ==
  /\ dlpc = "walking"
  /\ \E r \in {WalkRoots(themeSet)[dlRoot]} :
     \E acc \in {WalkTree(fsTree, r.root, r.allowSymbolicDirs,
                          [a |-> dlA, nested |-> nested, seen |-> seen])} :
       /\ dlA' = acc.a
       /\ nested' = acc.nested
       /\ seen' = acc.seen
       /\ dlRoot' = dlRoot + 1
       /\ dlpc' = IF dlRoot < Len(WalkRoots(themeSet)) THEN "walking"
                  ELSE IF Len(acc.nested) > 0 THEN "nested"
                  ELSE "collected"
  /\ UNCHANGED << fsTree, themeSet, watchDirs, watchSet, created,
                  notDirListVars >>

\* a round of the loop without the break of 776-778
WalkNestedNoBreak ==
  /\ dlpc = "nested"
  /\ \E acc \in {WalkAll(fsTree, nested, 1,
                         [a |-> dlA, nested |-> <<>>, seen |-> seen])} :
       /\ dlA' = acc.a
       /\ nested' = acc.nested
       /\ seen' = acc.seen
       /\ dlpc' = "nested"
  /\ UNCHANGED << fsTree, themeSet, dlRoot, watchDirs, watchSet, created,
                  notDirListVars >>

\* one round of the loop over the nested symbolic directories (765-780)
WalkNested ==
  /\ dlpc = "nested"
  /\ \E acc \in {WalkAll(fsTree, nested, 1,
                         [a |-> dlA, nested |-> <<>>, seen |-> seen])} :
       /\ dlA' = acc.a
       /\ nested' = acc.nested
       /\ seen' = acc.seen
       /\ dlpc' = IF Len(acc.nested) = 0 THEN "collected" ELSE "nested"
  /\ UNCHANGED << fsTree, themeSet, dlRoot, watchDirs, watchSet, created,
                  notDirListVars >>

\* a = helpers.UniqueStrings(a); sort.Strings(a); return a, nil
GetDirListReturn ==
  /\ dlpc = "collected"
  /\ watchDirs' = Sorted({dlA[i] : i \in 1..Len(dlA)}, FALSE)
  /\ dlpc' = "returned"
  /\ UNCHANGED << fsTree, themeSet, dlRoot, dlA, nested, seen, watchSet,
                  created, notDirListVars >>

\* newWatcher(watchDirs...): the directories and the config file are added
\* (883-894); newStaticSyncer or watcher.New may fail
NewWatcherAdd ==
  /\ dlpc = "returned"
  /\ \E ok \in BOOLEAN :
       /\ dlpc' = IF ok THEN "watching" ELSE "failed"
       /\ watchSet' = IF ok
                      THEN ({watchDirs[i] : i \in 1..Len(watchDirs)} \ {<<>>})
                             \cup {Paths.config}
                      ELSE watchSet
  /\ UNCHANGED << fsTree, themeSet, dlRoot, dlA, nested, seen, watchDirs,
                  created, notDirListVars >>

\* a directory is created inside a watched directory: its Create event
\* reaches the loop of 969-1014, which walks it with walkAdder unless the
\* event is skipped as noise
DirectoryCreated ==
  /\ dlpc = "watching"
  /\ created < MaxCreated
  /\ \E c \in Creations :
       /\ \A n \in fsTree : n.path # c.root
       /\ ParentDir(c.root) \in watchSet
       /\ fsTree' = fsTree \cup c.nodes
       /\ watchSet' =
            IF IsSkipped(Ev(c.root, {"Create"})) THEN watchSet
            ELSE watchSet \cup
                   WalkAdder(CreatedEntries(fsTree \cup c.nodes, c.root), 1,
                             [dynamic |-> <<>>, added |-> {}]).added
  /\ created' = created + 1
  /\ UNCHANGED << themeSet, dlpc, dlRoot, dlA, nested, seen, watchDirs,
                  notDirListVars >>

InitDirList ==
  /\ SiteIdle
  /\ TaskIdle
  /\ RssIdle
  /\ WatcherIdle
  /\ FullBuildIdle
  /\ RenderIdle
  /\ PaginatorIdle
  /\ TargetPathIdle
  /\ CloseIdle
  /\ fsTree \in VisibleTrees
  /\ themeSet \in BOOLEAN
  /\ dlpc = "start"
  /\ dlRoot = 0
  /\ dlA = <<>>
  /\ nested = <<>>
  /\ seen = {}
  /\ watchDirs = <<>>
  /\ watchSet = {}
  /\ created = 0

NextDirList ==
  \/ GetDirListBegin
  \/ WalkRoot
  \/ WalkNested
  \/ GetDirListReturn
  \/ NewWatcherAdd
  \/ DirectoryCreated

SpecDirList == InitDirList /\ [][NextDirList]_vars

\* the steps of getDirList
GetDirListStep ==
  GetDirListBegin \/ WalkRoot \/ WalkNested \/ GetDirListReturn

\* getDirList runs in one goroutine that is never blocked: a step of it
\* that can be taken is taken
SpecDirListFair ==
  InitDirList /\ [][NextDirList]_vars /\ WF_vars(GetDirListStep)

\* path is a directory named .git, node_modules or bower_components, or
\* lies below one
IsExcluded(path) ==
  \E i \in 1..Len(path) :
    /\ i = Len(path) \/ path[i + 1] = "/"
    /\ path[i] # "/"
    /\ Base(SubSeq(path, 1, i)) \in SkippedNames

\* C20: no directory named .git, node_modules or bower_components, and no
\* directory below one of them, is ever in the watch set: getDirList
\* neither collects nor returns one, and the recursive add after a
\* directory Create event never registers one.
C20_ExcludedDirectoriesNeverWatched ==
  /\ \A i \in 1..Len(dlA) : ~IsExcluded(dlA[i])
  /\ \A i \in 1..Len(watchDirs) : ~IsExcluded(watchDirs[i])
  /\ \A p \in watchSet : ~IsExcluded(p)

\* what getDirList does keep out: a directory that is itself named .git,
\* node_modules or bower_components, and everything below node_modules and
\* bower_components
C20_GetDirListPart ==
  \A i \in 1..Len(watchDirs) :
    /\ Base(watchDirs[i]) \notin SkippedNames
    /\ IsExcluded(watchDirs[i]) =>
         \E j \in 1..Len(watchDirs[i]) :
           /\ j = Len(watchDirs[i]) \/ watchDirs[i][j + 1] = "/"
           /\ Base(SubSeq(watchDirs[i], 1, j)) = DotGit

(***************************************************************************)
(* build in watch mode (hugo.go:481-496): the watcher is closed when a     *)
(* signal arrives, while the loop started by newWatcher (898-1095) runs.   *)
(***************************************************************************)
\* the events the closing runs draw their batches from
ClosePool ==
  CHOOSE p \in Pools :
    Ev(Paths.config, {"Write"}) \in p /\ Ev(Paths.staticX, {"Write"}) \in p

\* case err := <-watcher.Errors, while the watcher is open: an error arrives
ReceiveError ==
  /\ alive
  /\ wpc = "select"
  /\ bpc = "watching"
  /\ wpc' = "errcase"
  /\ UNCHANGED << pool, buildWatch, disableLiveReload, forceSyncStatic,
                  navigateToChanged, alive, batch, filtered, staticEvents,
                  dynamicEvents, calls, watched, debounceVars,
                  notWatcherVars >>

\* case err := <-watcher.Errors on the closed channel: nil, at once
ReceiveClosedError ==
  /\ alive
  /\ wpc = "select"
  /\ bpc = "closed"
  /\ chans.errors = "closed"
  /\ wpc' = "errcase"
  /\ UNCHANGED << pool, buildWatch, disableLiveReload, forceSyncStatic,
                  navigateToChanged, alive, batch, filtered, staticEvents,
                  dynamicEvents, calls, watched, debounceVars,
                  notWatcherVars >>

\* the error case returning from the goroutine
ErrorEndsLoop ==
  /\ alive
  /\ wpc = "errcase"
  /\ wpc' = "exited"
  /\ UNCHANGED << pool, buildWatch, disableLiveReload, forceSyncStatic,
                  navigateToChanged, alive, batch, filtered, staticEvents,
                  dynamicEvents, calls, watched, debounceVars,
                  notWatcherVars >>

\* if err != nil { log }: the select statement ends, the for loop goes on
ErrorHandled ==
  /\ alive
  /\ wpc = "errcase"
  /\ wpc' = "select"
  /\ UNCHANGED << pool, buildWatch, disableLiveReload, forceSyncStatic,
                  navigateToChanged, alive, batch, filtered, staticEvents,
                  dynamicEvents, calls, watched, debounceVars,
                  notWatcherVars >>

\* case evs := <-watcher.Events on the closed channel: the nil batch, at
\* once, handled like any batch of at most 50 events
ReceiveClosedEvents ==
  /\ alive
  /\ wpc = "select"
  /\ bpc = "closed"
  /\ chans.events = "closed"
  /\ HandleBatch(<<>>)

\* <-sigs returns, build returns and its deferred watcher.Close() runs.
\* The watcher package is not part of the source: whether Close closes
\* the Events and the Errors channel is left open.
CloseWatcher ==
  /\ alive
  /\ bpc = "watching"
  /\ bpc' = "closed"
  /\ chans' \in [events : {"open", "closed"}, errors : {"open", "closed"}]
  /\ UNCHANGED notCloseVars

InitClose ==
  /\ SiteIdle
  /\ TaskIdle
  /\ RssIdle
  /\ FullBuildIdle
  /\ RenderIdle
  /\ PaginatorIdle
  /\ TargetPathIdle
  /\ DirListIdle
  /\ pool = ClosePool
  /\ buildWatch = TRUE
  /\ disableLiveReload = TRUE
  /\ forceSyncStatic \in BOOLEAN
  /\ navigateToChanged \in BOOLEAN
  /\ wpc = "select"
  /\ alive = TRUE
  /\ batch = <<>>
  /\ filtered = <<>>
  /\ staticEvents = <<>>
  /\ dynamicEvents = <<>>
  /\ calls = <<>>
  /\ watched = {Paths.contentRoot, Paths.staticDir}
  /\ debTimer = -1
  /\ debSince = 0
  /\ debPending = 0
  /\ deferred = NoDeferred
  /\ bpc = "watching"
  /\ chans = [events |-> "open", errors |-> "open"]

NextClose ==
  \/ ReceiveEvents
  \/ NextIteration
  \/ Tick
  \/ DeferredFullRebuild
  \/ ReceiveError
  \/ ReceiveClosedError
  \/ ErrorHandled
  \/ ReceiveClosedEvents
  \/ CloseWatcher

\* the loop goroutine is scheduled: a case body that was entered runs to
\* its end, and a receive from a closed channel is taken
SpecClose ==
  /\ InitClose
  /\ [][NextClose]_vars
  /\ WF_vars(NextIteration)
  /\ WF_vars(ErrorHandled)
  /\ WF_vars(ReceiveClosedError)
  /\ WF_vars(ReceiveClosedEvents)

\* the loop goroutine has returned, or the process has ended
LoopStopped == wpc = "exited" \/ ~alive

\* C22: after the watcher is closed (watcher.Close in build), the loop
\* task started by newWatcher eventually stops: it does not keep running.
C22_LoopStopsAfterClose == (bpc = "closed") ~> LoopStopped

\* C33: an error received from watcher.Errors is only logged: the step of the
\* loop that receives it and the step that handles it make no call (no
\* rebuild, no resync, no live-reload signal), change nothing of the watcher
\* or the debouncer, and the loop is back in its select, alive, afterwards
C33_WatcherErrorOnlyLogged ==
  [][ (wpc # wpc' /\ (wpc = "errcase" \/ wpc' = "errcase")) =>
        /\ UNCHANGED << pool, buildWatch, disableLiveReload, forceSyncStatic,
                        navigateToChanged, alive, batch, filtered,
                        staticEvents, dynamicEvents, calls, watched,
                        debounceVars >>
        /\ calls = <<>>
        /\ alive
        /\ wpc = "errcase" => wpc' = "select" ]_vars

\* C33 witness: an error is being handled while the watcher is open and a
\* debounced rebuild is pending
C33_Witness ==
  /\ wpc = "errcase"
  /\ bpc = "watching"
  /\ debPending > 0
  /\ alive

\* fullBuild has returned nil
FullBuildSucceeded == fbpc = "done" /\ fbResult = "nil"

\* C34: after a successful fullBuild, sequential or concurrent, the Static
\* statistic of every site is the count the static sync of this fullBuild
\* reported for the site's language (one count for all languages when the
\* setup is not multihost), and the statistics are written only when the
\* static-sync task has returned and has assigned its counts
C34_StaticStatsAreTheSyncCounts ==
  /\ statsUpdated =>
        /\ csTask = "ok"
        /\ langCount = cnt
        /\ \E i \in 1..Len(finished) : finished[i] = "copyStatic"
  /\ FullBuildSucceeded =>
        /\ statsUpdated
        /\ \A l \in Langs : l \in DOMAIN cnt /\ stats[l].Static = cnt[l]
        /\ ~multihost => \A k, l \in Langs : stats[k].Static = stats[l].Static

\* C34 witness: a concurrent multihost fullBuild in which the site build
\* returned first has succeeded, with a different count for each language
C34_Witness ==
  /\ FullBuildSucceeded
  /\ ~cleanDestinationDir
  /\ multihost
  /\ finished = << "buildSites", "copyStatic" >>
  /\ stats[1].Static = 1
  /\ stats[2].Static = 2

\* the positions of the events with the Write or Create bit and a path
WriteOrCreate(events) ==
  { i \in 1..Len(events) :
      /\ ("Write" \in events[i].Op \/ "Create" \in events[i].Op)
      /\ events[i].Name # <<>> }

\* name is the first of the longest Write/Create paths in batch order, and
\* the empty string when there is none
IsFirstLongest(events, name) ==
  IF WriteOrCreate(events) = {}
  THEN name = <<>>
  ELSE \E i \in WriteOrCreate(events) :
         /\ name = events[i].Name
         /\ \A j \in WriteOrCreate(events) :
              /\ j < i => Len(events[j].Name) < Len(name)
              /\ j > i => Len(events[j].Name) <= Len(name)

\* C35: pickOneWriteOrCreatePath returns the first of the longest paths of
\* the events with the Write or Create bit, in batch order, and the empty
\* string iff there is no such event with a path; this holds of every
\* ordinary raw batch, of the dynamic events of every ordinary batch, and of
\* the path the loop looks the page up by after a batch of any length
C35_PicksFirstLongestPath ==
  /\ Len(batch) <= MaxBatch =>
       IsFirstLongest(batch, pickOneWriteOrCreatePath(batch))
  /\ Len(dynamicEvents) <= MaxBatch =>
       IsFirstLongest(dynamicEvents, pickOneWriteOrCreatePath(dynamicEvents))
  /\ \A k \in 1..Len(calls) :
       calls[k].op = "GetContentPage" =>
         IsFirstLongest(dynamicEvents, calls[k].arg[1])

\* C35 witness: two dynamic Write/Create events with different paths of the
\* same, longest, length, and the page was looked up by the earlier one
C35_Witness ==
  /\ wpc = "handled"
  /\ \E i, j \in WriteOrCreate(dynamicEvents) :
       /\ i < j
       /\ dynamicEvents[i].Name # dynamicEvents[j].Name
       /\ Len(dynamicEvents[i].Name) = Len(dynamicEvents[j].Name)
       /\ Len(dynamicEvents[i].Name)
            = Len(pickOneWriteOrCreatePath(dynamicEvents))
       /\ \E k \in 1..Len(calls) :
            /\ calls[k].op = "GetContentPage"
            /\ calls[k].arg[1] = dynamicEvents[i].Name

\* worker w went past the error check of the first output format of its page
\* with the nil main page output that a failed initialisation left behind
NilOutputInUse(w) ==
  /\ wpos[w] = "panic"
  /\ wfmt[w] = 1
  /\ pageOutputInit[wpage[w]]
  /\ mainPageOutput[wpage[w]] = "nil"

\* C36: whenever pageRenderer goes past the error check of a pair to layout
\* resolution and rendering, the page output in use is not nil, also for a
\* page whose one-time main-output initialisation failed before
C36_PageOutputInUseIsNonNil == \A w \in Workers : ~NilOutputInUse(w)

\* an event on a registered config file with the Chmod bit
IsConfigChmod(ev) == ev.Name \in ConfigSet /\ "Chmod" \in ev.Op

\* the batch without its config events with the Chmod bit
WithoutConfigChmod(evs) == SelectSeq(evs, LAMBDA ev : ~IsConfigChmod(ev))

\* C37: a config-file event with the Chmod bit, alone or with Write or
\* Create, triggers no full rebuild and is dropped: it is in none of the
\* filtered, static and dynamic sequences, and the first loop leaves what it
\* leaves of the batch without these events
C37_ConfigChmodIsDropped ==
  (wpc = "handled" /\ ~IsStorm(batch)) =>
    /\ \A i \in 1..Len(filtered) : filtered[i].Name \notin ConfigSet
    /\ \A i \in 1..Len(staticEvents) : staticEvents[i].Name \notin ConfigSet
    /\ \A i \in 1..Len(dynamicEvents) : dynamicEvents[i].Name \notin ConfigSet
    /\ (\A i \in 1..Len(batch) :
          batch[i].Name \in ConfigSet => "Chmod" \in batch[i].Op)
         => CountCalls("fullRebuild") = 0
    /\ filtered = Filter(WithoutConfigChmod(batch)).filtered
    /\ CountCalls("fullRebuild") = Filter(WithoutConfigChmod(batch)).config

\* C37 witness: a batch of a config event with Chmod and Write and a
\* content event: no full rebuild, and the content event is rebuilt
C37_Witness ==
  /\ wpc = "handled"
  /\ batch = << Ev(Paths.config, {"Chmod", "Write"}),
                Ev(Paths.contentA, {"Write"}) >>
  /\ dynamicEvents = << Ev(Paths.contentA, {"Write"}) >>
  /\ CountCalls("fullRebuild") = 0
  /\ CountCalls("rebuildSites") = 1

\* the positions of the calls of op in the last iteration
CallsOf(op) == { i \in 1..Len(calls) : calls[i].op = op }

\* the incremental static resync of the last iteration failed
StaticResyncFailed ==
  \E i \in CallsOf("ERROR") : calls[i].arg = << "syncsStaticEvents" >>

\* the calls that handle the static events, and those that handle the
\* dynamic events
StaticOps == {"syncsStaticEvents", "copyStatic", "StopOnErr", "RefreshPath"}
DynamicOps == {"rebuildSites", "GetContentPage", "NavigateToPathForPort"}

\* C38: within one batch the static events are handled before the dynamic
\* ones; a failed syncsStaticEvents ends the handling of the batch (its
\* error log is the last call: no rebuildSites, no RefreshPath, no
\* navigation, and no ForceRefresh after the resync), and a successful one
\* is followed by one rebuildSites of the dynamic events when there are any
C38_StaticBeforeDynamic ==
  wpc = "handled" =>
    /\ \A i, j \in 1..Len(calls) :
         (calls[i].op \in StaticOps /\ calls[j].op \in DynamicOps) => i < j
    /\ StaticResyncFailed =>
         /\ calls[Len(calls)] = Call("ERROR", << "syncsStaticEvents" >>)
         /\ calls[Len(calls) - 1] = Call("syncsStaticEvents", staticEvents)
         /\ CallOps \cap (DynamicOps \cup {"RefreshPath"}) = {}
         /\ \A i \in CallsOf("ForceRefresh") :
              \A j \in CallsOf("syncsStaticEvents") : i < j
    /\ (CallsOf("syncsStaticEvents") # {} /\ ~StaticResyncFailed
          /\ Len(dynamicEvents) > 0) =>
         \E j \in CallsOf("rebuildSites") :
           /\ calls[j].arg = dynamicEvents
           /\ \A i \in CallsOf("syncsStaticEvents") : i < j
           /\ CallsOf("rebuildSites") = {j}

\* C38 witness: a batch with a static and a dynamic event whose resync
\* failed with live reload on: the dynamic event was not rebuilt
C38_Witness ==
  /\ wpc = "handled"
  /\ DoLiveReload
  /\ Len(staticEvents) = 1
  /\ Len(dynamicEvents) = 1
  /\ calls = << Call("syncsStaticEvents", staticEvents),
                Call("ERROR", << "syncsStaticEvents" >>) >>

\* getDirList has returned, with its list or with the error of
\* newStaticSyncer
GetDirListReturned == dlpc \in {"returned", "watching", "failed"}

\* every path of the list sorts before the paths after it
StrictlySorted(list) ==
  \A i, j \in 1..Len(list) : i < j => Before(list[i], list[j], FALSE)

\* C39: getDirList terminates for every source tree, also when a linked
\* directory below the content root holds a link back to itself or to a
\* directory above it: the loop over the nested linked directories comes to
\* a round that finds no new one, and the list returned is sorted and
\* without duplicates
C39_GetDirListTerminates ==
  /\ <>GetDirListReturned
  /\ (dlpc = "nested") ~> (dlpc = "collected" /\ nested = <<>>)
  /\ [](StrictlySorted(watchDirs))

\* C39 witness: the list of a tree whose linked directory links back to
\* itself has been returned after rounds that went through the link
C39_Witness ==
  /\ dlpc = "returned"
  /\ Link(Join(DirPaths.link, <<"b">>), DirPaths.link) \in fsTree
  /\ \E i \in 1..Len(watchDirs) :
       watchDirs[i] = Join(Join(DirPaths.link, <<"b">>), <<"k">>)
  /\ Join(Join(DirPaths.link, <<"b">>), <<"b">>) \in seen

\* the live-reload notifications
LiveReloadOps == {"ForceRefresh", "RefreshPath", "NavigateToPathForPort"}

\* the calls made by the deferred full rebuild that ran last
DeferredOps == { deferred.calls[i].op : i \in 1..Len(deferred.calls) }

\* C40: with buildWatch set no live-reload notification is ever made,
\* neither by the handling of a batch nor by a deferred full rebuild
C40_NoLiveReloadUnderBuildWatch ==
  buildWatch => (CallOps \cup DeferredOps) \cap LiveReloadOps = {}

\* C40 witness: under buildWatch a batch with a static and a dynamic event
\* was synced and rebuilt, and nothing else was called
C40_Witness ==
  /\ buildWatch
  /\ wpc = "handled"
  /\ Len(staticEvents) = 1
  /\ Len(dynamicEvents) = 1
  /\ calls = << Call("syncsStaticEvents", staticEvents),
                Call("rebuildSites", dynamicEvents) >>

(***************************************************************************)
(* An RSS output format of one page in pageRenderer (part_000:70-110) and  *)
(* renderRSS (part_000:191-232).                                           *)
(***************************************************************************)
\* the largest number of pages a Document lists
MaxFeedPages == 2

\* the kinds of the Documents
DocKinds == {"home", "section", "taxonomy", "taxonomyTerm", "page"}

\* a regular page has no feed; the list kinds do
SupportsFeed(kind) == kind # "page"

\* rssLimit: negative for no limit
RssLimits == {-1} \cup (0..MaxFeedPages)

\* the feed is rendered unless the kind is disabled: disableRSS is ignored
FeedDisabledByKindOnly(cfg) == ~cfg.enabled

\* if !s.isEnabled(kindRSS) { return nil }; if disableRSS { return nil }
FeedDisabled(cfg) == ~cfg.enabled \/ cfg.disableRSS

\* the page lists a Document can hold: no page listed twice
PageListsOf(ids) ==
  { l \in UNION { [1..n -> ids] : n \in 0..MaxFeedPages } :
      \A i \in 1..Len(l) : \A j \in 1..Len(l) : l[i] = l[j] => i = j }

\* the pages a Document can list
FeedPageIds == 1..(MaxFeedPages + 1)

\* the limit keeping the last entries of the list instead of the first
FeedOutputLastEntries(p, limit) ==
  LET asRSS == [p EXCEPT !.Kind = "RSS"]
      n == Len(asRSS.Pages)
  IN  IF limit >= 0 /\ n > limit
      THEN [asRSS EXCEPT !.Pages = SubSeq(asRSS.Pages, n - limit + 1, n),
                         !.DataPages = SubSeq(asRSS.Pages, n - limit + 1, n)]
      ELSE asRSS

\* what renderRSS assigns to the page output before it renders
\* (part_000:201-215); the test for KindTaxonomy follows the assignment
\* of kindRSS
FeedOutput(p, limit) ==
  LET asRSS == [p EXCEPT !.Kind = "RSS"]
      dated == IF asRSS.Kind = "taxonomy"
               THEN [asRSS EXCEPT !.Date = "zero"] ELSE asRSS
  IN  IF limit >= 0 /\ Len(dated.Pages) > limit
      THEN [dated EXCEPT !.Pages = SubSeq(dated.Pages, 1, limit),
                         !.DataPages = SubSeq(dated.Pages, 1, limit)]
      ELSE dated

\* pageRenderer up to the switch (70-103): the page output is created,
\* for the first format on the Document itself (newPageOutput(page,
\* false, ...)), for a later one on a copy; a failure here or in the
\* layout resolution is logged and the format skipped
PrepareOutput ==
  /\ rsspc = "start"
  /\ \E o \in {"ok", "pageOutput", "layout"} :
       IF o = "ok"
       THEN /\ po' = doc
            /\ rsspc' = "render"
       ELSE /\ po' = NoOutput
            /\ rsspc' = "done"
  /\ UNCHANGED << rssCfg, rssFirst, doc, docBefore, rssErr, rssWrites,
                  rssSent, notRssVars >>

\* s.renderRSS(pageOutput): what it writes to the page output reaches the
\* Document when the page output is the main one
RenderRSS ==
  /\ rsspc = "render"
  /\ IF FeedDisabled(rssCfg)
     THEN /\ rssErr' = "nil"
          /\ UNCHANGED << po, doc, rssWrites >>
     ELSE /\ po' = FeedOutput(po, rssCfg.rssLimit)
          /\ doc' = IF rssFirst THEN FeedOutput(po, rssCfg.rssLimit) ELSE doc
          /\ \E o \in {"ok", "layout", "targetPath", "write"} :
               /\ rssErr' = IF o = "ok" THEN "nil" ELSE o
               /\ rssWrites' = IF o = "ok" THEN rssWrites + 1 ELSE rssWrites
  /\ rsspc' = "report"
  /\ UNCHANGED << rssCfg, rssFirst, docBefore, rssSent, notRssVars >>

\* if err := s.renderRSS(pageOutput); err != nil { results <- err }
ReportRSS ==
  /\ rsspc = "report"
  /\ rssSent' = IF rssErr # "nil" THEN Append(rssSent, rssErr) ELSE rssSent
  /\ rsspc' = "done"
  /\ UNCHANGED << rssCfg, rssFirst, doc, docBefore, po, rssErr, rssWrites,
                  notRssVars >>

InitRSS ==
  /\ SiteIdle
  /\ TaskIdle
  /\ WatcherIdle
  /\ FullBuildIdle
  /\ RenderIdle
  /\ PaginatorIdle
  /\ TargetPathIdle
  /\ DirListIdle
  /\ CloseIdle
  /\ rssCfg \in [enabled : BOOLEAN, disableRSS : BOOLEAN, rssLimit : RssLimits]
  /\ rssFirst \in BOOLEAN
  /\ \E kind \in DocKinds : \E l \in PageListsOf(FeedPageIds) :
       doc = [Kind |-> kind, Date |-> "date", Pages |-> l, DataPages |-> l]
  /\ docBefore = doc
  /\ po = NoOutput
  /\ rsspc = "start"
  /\ rssErr = "nil"
  /\ rssWrites = 0
  /\ rssSent = <<>>

NextRSS ==
  \/ PrepareOutput
  \/ RenderRSS
  \/ ReportRSS

SpecRSS == InitRSS /\ [][NextRSS]_vars

\* C23: during a render pass no worker writes to the state of a Document
\* shared with other workers or stages (Kind, Date, Pages, Data): rendering
\* an output format, the first one included, leaves the Document as it was.
C23_SharedDocumentUnchanged == doc = docBefore

\* the Document is written only when the feed is the first format of the
\* page; a later format works on its copy
C23_OnlyFirstFormatWrites ==
  doc # docBefore =>
    /\ rssFirst
    /\ ~FeedDisabled(rssCfg)
    /\ doc = FeedOutput(docBefore, rssCfg.rssLimit)

\* renderRSS was called and has returned
RenderRSSReturned == rsspc \in {"report", "done"} /\ po # NoOutput

\* renderRSS returned having done nothing
FeedSkipped == rssWrites = 0 /\ po = docBefore /\ rssErr = "nil"

\* C30: feed generation is skipped entirely when the RSS feature is
\* disabled (kind RSS not enabled, or disableRSS set) or when the kind of
\* the Document does not support a feed: renderRSS writes no artifact,
\* leaves the page output unchanged and returns nil.
C30_FeedSkippedWhenDisabledOrUnsupported ==
  (RenderRSSReturned
     /\ (~rssCfg.enabled \/ rssCfg.disableRSS
           \/ ~SupportsFeed(docBefore.Kind)))
    => FeedSkipped

\* C30, amended: feed generation is skipped entirely when kind RSS is not
\* enabled or disableRSS is set, and only then it is sure to be skipped:
\* no artifact, the page output unchanged, nil returned and nothing sent
\* on results.
C30_FeedSkippedWhenDisabled ==
  (RenderRSSReturned /\ (~rssCfg.enabled \/ rssCfg.disableRSS))
    => (FeedSkipped /\ rssSent = <<>>)

C30_Witness ==
  /\ rsspc = "done"
  /\ po # NoOutput
  /\ rssCfg.enabled
  /\ rssCfg.disableRSS
  /\ rssFirst
  /\ rssCfg.rssLimit >= 0
  /\ Len(docBefore.Pages) > rssCfg.rssLimit
  /\ FeedSkipped

\* the first n entries of a list, in their order
FirstEntries(list, n) == [i \in 1..n |-> list[i]]

\* renderRSS went past its two tests of the configuration
FeedAttempted ==
  RenderRSSReturned /\ rssCfg.enabled /\ ~rssCfg.disableRSS

\* C31: with rssLimit = L, when L >= 0 and the page list has more than L
\* entries, p.Pages and Data["Pages"] are exactly its first L entries in
\* their order (none for L = 0); otherwise the list is unchanged. The list
\* is cut before the layouts and the target path are resolved: it is cut
\* also when one of them fails.
C31_FeedListsFirstEntries ==
  FeedAttempted =>
    IF rssCfg.rssLimit >= 0 /\ Len(docBefore.Pages) > rssCfg.rssLimit
    THEN /\ po.Pages = FirstEntries(docBefore.Pages, rssCfg.rssLimit)
         /\ po.DataPages = po.Pages
         /\ Len(po.Pages) = rssCfg.rssLimit
    ELSE /\ po.Pages = docBefore.Pages
         /\ po.DataPages = docBefore.DataPages

\* C31 witness: a list of two pages was cut to its first page, and the
\* layouts were not found afterwards
C31_Witness ==
  /\ FeedAttempted
  /\ rssCfg.rssLimit = 1
  /\ docBefore.Pages = << 2, 1 >>
  /\ po.Pages = << 2 >>
  /\ rssErr = "layout"
  /\ rssWrites = 0

(***************************************************************************)
(* The debounced fullRebuild as a deferred task of its own, next to the    *)
(* watch loop (hugo.go:905, 856-864).                                      *)
(***************************************************************************)
\* the operations that build or mutate the resident site graph
GraphOps == {"fullRebuild", "rebuildSites"}

\* the watch loop is inside such an operation of the batch it is handling
LoopBuilds == wpc = "handled" /\ CallOps \cap GraphOps # {}

\* the timer fires: the deferred task starts c.fullRebuild, whatever the
\* watch loop is doing
DeferredBegin ==
  /\ alive
  /\ TimerExpired
  /\ taskpc = "idle"
  /\ taskpc' = "fullRebuild"
  /\ debTimer' = -1
  /\ UNCHANGED << debSince, debPending, deferred, watcherVars,
                  notTaskVars >>

\* the fullRebuild of the deferred task returns
DeferredEnd ==
  /\ taskpc = "fullRebuild"
  /\ \E cfgOk \in BOOLEAN : \E buildOk \in Outcome(cfgOk) :
       deferred' = [triggers |-> debPending, calls |-> FullRebuild(cfgOk, buildOk)]
  /\ taskpc' = "idle"
  /\ debSince' = 0
  /\ debPending' = 0
  /\ UNCHANGED << debTimer, watcherVars, notTaskVars >>

InitOverlap ==
  /\ SiteIdle
  /\ Init
  /\ pool = ClosePool

NextOverlap ==
  \/ ReceiveEvents
  \/ NextIteration
  \/ Tick
  \/ DeferredBegin
  \/ DeferredEnd

SpecOverlap == InitOverlap /\ [][NextOverlap]_vars

\* C24: at most one operation that builds or mutates the resident site
\* graph is in progress at any time: while the fullRebuild of the debouncer
\* runs, the watch loop is in no fullRebuild and no rebuildSites of a batch
C24_OneGraphOperationAtATime == ~(taskpc = "fullRebuild" /\ LoopBuilds)

(***************************************************************************)
(* The resident site graph: the package variable Hugo, Reset, initSites,   *)
(* recreateAndBuildSites, rebuildSites and fullRebuild                     *)
(* (hugo.go:208-215, 788-797, 809-823, 832-864).                           *)
(***************************************************************************)
\* the language codes of the configured languages
LangCodes == << <<"e", "n">>, <<"f", "r">>, <<"d", "e">>, <<"n", "l">> >>

\* the paths a browser can have visited
VisitedPaths == { <<"/", "p", "/">>, <<"/", "f", "r", "/">> }

\* the base paths of the site
BasePaths == { <<>>, <<"/", "b">> }

\* c.PathSpec().GetLangSubDir(l.Lang): the default language has a
\* subdirectory only with defaultContentLanguageInSubdir
LangSubDir(l) ==
  IF l = 1 /\ ~siteCfg.defaultInSubdir THEN <<>> ELSE LangCodes[l]

\* "/" + langPath, with the base path before it
HomePath(l) ==
  siteCfg.basePath \o <<"/">>
    \o (IF LangSubDir(l) # <<>> THEN LangSubDir(l) \o <<"/">> ELSE <<>>)

\* the home paths added without the test of live reload
FastRenderWithoutLiveReload == ~siteCfg.disableFastRender

\* doLiveReload && !c.Cfg.GetBool("disableFastRender")
FastRender == DoLiveReload /\ ~siteCfg.disableFastRender

\* the RecentlyVisited set rebuildSites passes to Build
RecentlyVisited ==
  visitedURLs \cup (IF FastRender THEN {HomePath(l) : l \in Langs} ELSE {})

\* initSites: use the resident Hugo with the configuration of the commandeer,
\* or create one; newOk is the outcome of NewHugoSites
InitSites(h, cfg, newOk) ==
  IF h.resident THEN [h EXCEPT !.cfg = cfg]
  ELSE IF newOk THEN [resident |-> TRUE, cfg |-> cfg, sitesFrom |-> -1]
  ELSE NoSites

\* Hugo.Build: with CreateSitesFromConfig the sites are created from Hugo.Cfg;
\* a failed build may have got that far or not
Build(h, fromConfig, done) ==
  IF fromConfig /\ done THEN [h EXCEPT !.sitesFrom = h.cfg] ELSE h

\* c.fullRebuild()
SiteFullRebuild ==
  /\ sitepc = "ready"
  /\ cfgVersion < MaxReloads
  /\ \E cfgOk \in BOOLEAN :
     \E newOk \in Outcome(cfgOk /\ ~Hugo.resident) :
     \E buildOk \in Outcome(cfgOk /\ newOk) :
     \E done \in (IF cfgOk /\ newOk /\ ~buildOk THEN BOOLEAN ELSE {TRUE}) :
       /\ siteOp' = [op |-> "fullRebuild", cfgOk |-> cfgOk, newOk |-> newOk,
                     buildOk |-> buildOk]
       /\ cfgVersion' = IF cfgOk THEN cfgVersion + 1 ELSE cfgVersion
       /\ siteCalls' = FullRebuild(cfgOk, newOk /\ buildOk)
       /\ Hugo' = IF ~cfgOk THEN Hugo
                  ELSE IF ~newOk THEN InitSites(Hugo, cfgVersion', newOk)
                  ELSE Build(InitSites(Hugo, cfgVersion', newOk), TRUE, done)
       /\ sitesMade' = IF cfgOk /\ newOk /\ ~Hugo.resident
                       THEN sitesMade + 1 ELSE sitesMade
       /\ buildCfg' = IF cfgOk /\ newOk
                      THEN [kind |-> "CreateSitesFromConfig",
                            RecentlyVisited |-> {}]
                      ELSE NoBuild
  /\ hugoBefore' = Hugo
  /\ sitepc' = "returned"
  /\ UNCHANGED << siteCfg, visitedURLs, watcherVars, debounceVars,
                  notSiteVars >>

\* c.rebuildSites(events)
SiteRebuild ==
  /\ sitepc = "ready"
  /\ \E newOk \in Outcome(~Hugo.resident) :
     \E buildOk \in Outcome(newOk) :
       /\ siteOp' = [op |-> "rebuildSites", cfgOk |-> TRUE, newOk |-> newOk,
                     buildOk |-> buildOk]
       /\ siteCalls' = << Call("rebuildSites", <<>>) >>
       /\ Hugo' = InitSites(Hugo, cfgVersion, newOk)
       /\ sitesMade' = IF newOk /\ ~Hugo.resident
                       THEN sitesMade + 1 ELSE sitesMade
       /\ buildCfg' = IF newOk
                      THEN [kind |-> "RecentlyVisited",
                            RecentlyVisited |-> RecentlyVisited]
                      ELSE NoBuild
  /\ hugoBefore' = Hugo
  /\ sitepc' = "returned"
  /\ UNCHANGED << siteCfg, cfgVersion, visitedURLs, watcherVars,
                  debounceVars, notSiteVars >>

\* Reset(): Hugo = nil
SiteReset ==
  /\ sitepc = "ready"
  /\ Hugo.resident
  /\ Hugo' = NoSites
  /\ sitesMade' = 0
  /\ hugoBefore' = Hugo
  /\ siteOp' = [NoOp EXCEPT !.op = "Reset"]
  /\ siteCalls' = <<>>
  /\ buildCfg' = NoBuild
  /\ sitepc' = "returned"
  /\ UNCHANGED << siteCfg, cfgVersion, visitedURLs, watcherVars,
                  debounceVars, notSiteVars >>

\* a browser requests a page: c.visitedURLs gets its path
VisitURL ==
  /\ sitepc = "ready"
  /\ \E u \in VisitedPaths \ visitedURLs :
       visitedURLs' = visitedURLs \cup {u}
  /\ UNCHANGED << Hugo, siteCfg, cfgVersion, sitesMade, siteOp, hugoBefore,
                  siteCalls, buildCfg, sitepc, watcherVars, debounceVars,
                  notSiteVars >>

\* the operation has returned to its caller, which may call the next one
SiteReturn ==
  /\ sitepc = "returned"
  /\ sitepc' = "ready"
  /\ UNCHANGED << Hugo, siteCfg, cfgVersion, sitesMade, visitedURLs, siteOp,
                  hugoBefore, siteCalls, buildCfg, watcherVars, debounceVars,
                  notSiteVars >>

InitSite ==
  /\ pool = {}
  /\ buildWatch \in BOOLEAN
  /\ disableLiveReload \in BOOLEAN
  /\ buildWatch => disableLiveReload
  /\ forceSyncStatic = FALSE
  /\ navigateToChanged = FALSE
  /\ wpc = "idle"
  /\ alive = TRUE
  /\ batch = <<>>
  /\ filtered = <<>>
  /\ staticEvents = <<>>
  /\ dynamicEvents = <<>>
  /\ calls = <<>>
  /\ watched = {}
  /\ debTimer = -1
  /\ debSince = 0
  /\ debPending = 0
  /\ deferred = NoDeferred
  /\ TaskIdle
  /\ FullBuildIdle
  /\ RenderIdle
  /\ PaginatorIdle
  /\ TargetPathIdle
  /\ DirListIdle
  /\ CloseIdle
  /\ RssIdle
  /\ Hugo \in {NoSites, [resident |-> TRUE, cfg |-> 0, sitesFrom |-> 0]}
  /\ siteCfg \in [disableFastRender : BOOLEAN, defaultInSubdir : BOOLEAN,
                  basePath : BasePaths]
  /\ cfgVersion = 0
  /\ sitesMade = IF Hugo.resident THEN 1 ELSE 0
  /\ visitedURLs = {}
  /\ siteOp = NoOp
  /\ hugoBefore = Hugo
  /\ siteCalls = <<>>
  /\ buildCfg = NoBuild
  /\ sitepc = "ready"

NextSite ==
  \/ SiteFullRebuild
  \/ SiteRebuild
  \/ SiteReset
  \/ VisitURL
  \/ SiteReturn

SpecSite == InitSite /\ [][NextSite]_vars

\* the operations of the calls an operation on the site graph made
SiteOps == [i \in 1..Len(siteCalls) |-> siteCalls[i].op]

IsPrefixOf(s, t) == Len(s) <= Len(t) /\ \A i \in 1..Len(s) : s[i] = t[i]

FullRebuildReturned == sitepc = "returned" /\ siteOp.op = "fullRebuild"

\* C25: fullRebuild reloads the configuration, rebuilds the site graph from
\* it and force-refreshes the clients, in this order; the rebuild runs only
\* after a successful reload (a failed reload leaves the resident graph
\* untouched), the refresh only after a successful rebuild and only with
\* live reload enabled
C25_FullRebuildStepsInOrder ==
  FullRebuildReturned =>
    /\ IsPrefixOf(SiteOps, << "fullRebuild", "loadConfig",
                              "recreateAndBuildSites", "ForceRefresh" >>)
    /\ Len(SiteOps) >= 2
    /\ Len(SiteOps) >= 3 <=> siteOp.cfgOk
    /\ Len(SiteOps) = 4 <=> /\ siteOp.cfgOk /\ siteOp.newOk /\ siteOp.buildOk
                            /\ ~buildWatch /\ ~disableLiveReload
    /\ ~siteOp.cfgOk => Hugo = hugoBefore /\ buildCfg = NoBuild
    /\ siteOp.cfgOk /\ siteOp.newOk /\ siteOp.buildOk =>
         /\ Hugo.resident
         /\ Hugo.cfg = cfgVersion
         /\ Hugo.sitesFrom = cfgVersion
         /\ buildCfg.kind = "CreateSitesFromConfig"

\* a failed reload with a resident site graph
C25_Witness ==
  /\ FullRebuildReturned
  /\ ~siteOp.cfgOk
  /\ hugoBefore.resident
  /\ ~buildWatch /\ ~disableLiveReload

RebuildReturned == sitepc = "returned" /\ siteOp.op = "rebuildSites"

\* the home path of every configured language, computed from the
\* configuration
HomePaths ==
  { siteCfg.basePath \o <<"/">>
      \o (IF l = 1 /\ ~siteCfg.defaultInSubdir THEN <<>>
          ELSE LangCodes[l] \o <<"/">>) : l \in Langs }

\* a site graph is created only when none is resident, and at most once
\* between Reset calls
CreatesOnlyWhenNoneResident ==
  /\ sitesMade <= 1
  /\ Hugo.resident => sitesMade = 1
  /\ sitepc = "returned" /\ siteOp.op # "Reset" /\ hugoBefore.resident =>
       /\ Hugo.resident
       /\ Hugo.sitesFrom \in {hugoBefore.sitesFrom, Hugo.cfg}
       /\ siteOp.op = "rebuildSites" => Hugo.sitesFrom = hugoBefore.sitesFrom

\* C26 as stated: rebuildSites creates the site graph only if none is
\* resident, and the RecentlyVisited set of every rebuild contains the home
\* path of every language and the visited paths
C26_HomePathsInEveryRebuild ==
  /\ CreatesOnlyWhenNoneResident
  /\ RebuildReturned /\ buildCfg # NoBuild =>
       /\ visitedURLs \subseteq buildCfg.RecentlyVisited
       /\ HomePaths \subseteq buildCfg.RecentlyVisited

\* C26: rebuildSites creates the site graph only if none is resident; the
\* RecentlyVisited set of a rebuild is the visited paths, with the home path
\* of every language added when live reload is enabled and disableFastRender
\* is not set
C26_HomePathsWithFastRender ==
  /\ CreatesOnlyWhenNoneResident
  /\ RebuildReturned /\ buildCfg # NoBuild =>
       /\ buildCfg.kind = "RecentlyVisited"
       /\ visitedURLs \subseteq buildCfg.RecentlyVisited
       /\ IF ~buildWatch /\ ~disableLiveReload /\ ~siteCfg.disableFastRender
          THEN buildCfg.RecentlyVisited = visitedURLs \cup HomePaths
          ELSE buildCfg.RecentlyVisited = visitedURLs

\* a rebuild on a resident graph with live reload and fast render, after a
\* page was visited
C26_Witness ==
  /\ RebuildReturned
  /\ hugoBefore.resident
  /\ buildCfg # NoBuild
  /\ visitedURLs # {}
  /\ ~buildWatch /\ ~disableLiveReload /\ ~siteCfg.disableFastRender
  /\ Cardinality(buildCfg.RecentlyVisited) > Cardinality(visitedURLs)

(***************************************************************************)
(* renderPages under a fair scheduler: a step that can be taken is taken.  *)
(***************************************************************************)
\* where renderPages, the workers and the collator stand: every step
\* changes it
renderPos == << rpc, fed, wpos, wpage, wfmt, collator >>

\* the sites of the fair runs: every kind of page is in one of them
FairSites ==
  { << FeedNode, SelfLayoutPage, NoOutputPage >>,
    << FeedNode, FeedNode, NoOutputPage >>,
    << SelfLayoutPage, BrokenPage, NoOutputPage >>,
    << RevisitedNode, NoOutputPage, BrokenPage >> }

InitRenderFair ==
  /\ SiteIdle
  /\ TaskIdle
  /\ RssIdle
  /\ WatcherIdle
  /\ FullBuildIdle
  /\ PaginatorIdle
  /\ TargetPathIdle
  /\ DirListIdle
  /\ CloseIdle
  /\ \E site \in FairSites : \E n \in 0..MaxPages :
       sitePages = [p \in 1..n |-> site[((p - 1) % Len(site)) + 1]]
  /\ rpc = "start"
  /\ fed = 0
  /\ pagesClosed = FALSE
  /\ resultsClosed = FALSE
  /\ wpos = [w \in Workers |-> "none"]
  /\ wpage = [w \in Workers |-> 0]
  /\ wfmt = [w \in Workers |-> 0]
  /\ wsend = [w \in Workers |-> NoFailure]
  /\ pageOutputInit = [p \in 1..Len(sitePages) |-> sitePages[p].init # "fresh"]
  /\ mainPageOutput =
       [p \in 1..Len(sitePages) |->
          IF sitePages[p].init = "ok" THEN "po" ELSE "nil"]
  /\ mainComputed = [p \in 1..Len(sitePages) |-> 0]
  /\ received = [p \in 1..Len(sitePages) |-> 0]
  /\ processed = {}
  /\ logged = {}
  /\ rendered = {}
  /\ paginated = {}
  /\ sent = {}
  /\ errMsgs = {}
  /\ collator = "none"
  /\ rpResult = "none"

SpecRenderFair ==
  InitRenderFair /\ [][NextRender]_vars /\ WF_renderPos(NextRender)

\* no page comes with a nil main page output from an earlier pass
NoNilMainOutput ==
  \A p \in 1..Len(sitePages) : sitePages[p].init # "failed"

\* renderPages has returned
RenderPagesReturned ==
  /\ rpc = "done"
  /\ rpResult # "none"
  /\ \A w \in Workers : wpos[w] = "done"
  /\ collator = "done"

\* C27: renderPages terminates without deadlock, for every page list and
\* every placement of render errors: every worker exits, no worker stays
\* blocked in a send on results, and the final receive from the collator
\* completes. A pass only fails to return when a worker dereferences a nil
\* page output, which ends the process.
C27_RenderPagesTerminates ==
  /\ NoNilMainOutput => <>RenderPagesReturned
  /\ <>(RenderPagesReturned \/ Crashed)

\* C27 witness: renderPages has returned after both workers sent errors of
\* two pages
C27_Witness ==
  /\ RenderPagesReturned
  /\ rpResult = "error"
  /\ \E s1 \in sent : \E s2 \in sent : s1.page # s2.page
  /\ Len(sitePages) = MaxPages

\* C28: a failure of page-output creation, layout resolution or target-path
\* computation is logged and never sent on results, the pair is neither
\* rendered nor paginated, and the other formats of the page and the other
\* pages are processed all the same
C28_LoggedFailureSkipsOnlyItsPair ==
  /\ \A f \in logged :
       /\ f.kind \in {"pageOutput", "layout", "targetPath"}
       /\ << f.page, f.format >> \notin (rendered \cup paginated)
       /\ \A s \in sent : << s.page, s.format >> # << f.page, f.format >>
  /\ \A s \in sent : s.kind \notin {"pageOutput", "layout", "targetPath"}
  /\ rpc = "done" => processed = Pairs

\* C28 witness: the layout of the first format of page 1 was not found; its
\* second format and page 2 were rendered and the pass has returned
C28_Witness ==
  /\ rpc = "done"
  /\ Failure(1, 1, "layout") \in logged
  /\ << 1, 2 >> \in rendered
  /\ << 2, 1 >> \in rendered
  /\ sent = {}

\* C29: renderPaginator is called for a pair only after renderAndWritePage
\* has returned without error for it
C29_PaginatorOnlyAfterWrittenArtifact == paginated \subseteq rendered

====
